---------------------------- MODULE Spec2Model ----------------------------
(***************************************************************************)
(* The AI-proposed file edit pipeline of Roo-Code:                         *)
(*   - DiffViewProvider, the Edit Session (open / update / saveChanges /    *)
(*     revertChanges / reset),                                              *)
(*   - applyDiffTool, the diff orchestrator,                                *)
(*   - promiseTimeout, the timeout guard.                                   *)
(* and, beside the pipeline, the SchedulableRulesManager and the response  *)
(* buffer of the TaskLogger.                                                *)
(* The specifications of the module:                                        *)
(*   Spec            applyDiffTool driving the Edit Session, one invocation *)
(*                   after another, split at its suspension points;         *)
(*   SpecConcurrent  several invocations of applyDiffTool in flight on one  *)
(*                   task, as far as the mistake counts go;                 *)
(*   SpecSession     the Edit Session driven by an arbitrary client;        *)
(*   SpecDiagnostics the Edit Session under every pair of diagnostics;      *)
(*   SpecGuard       one promiseTimeout race between an operation and its   *)
(*                   deadline timer;                                        *)
(*   SpecRace        one invocation on a file that is written between the   *)
(*                   orchestrator's read and the session's;                 *)
(*   SpecStrip       stripAllBOMs on every short text;                      *)
(*   SpecRules       the SchedulableRulesManager under an advancing clock;  *)
(*   SpecLogger      TaskLogger.logAIResponse under an advancing clock, with*)
(*                   weak fairness of the clock.                            *)
(***************************************************************************)
EXTENDS Integers, Sequences, FiniteSets, TLC

VARIABLES
    \* ---- file system and editor configuration (shared)
    disk,           \* path -> content of the file, or Absent
    dirs,           \* the directories that exist
    occupied,       \* directories holding entries written by somebody else
    skipDiffView,   \* DiffViewProvider.skipDiffView: direct-write mode
    dvp,            \* the fields of the DiffViewProvider
    \* ---- history of the Edit Session's client (SpecSession)
    hist,
    \* ---- applyDiffTool (Spec)
    pc,             \* position of the running invocation
    inv,            \* the block and the options of the invocation
    loc,            \* the invocation's local variables
    trace,          \* what the invocation did, in order
    mistakes,       \* cline.consecutiveMistakeCountForApplyDiff
    taskMistakes,   \* cline.consecutiveMistakeCount
    hFails,         \* history: strategy failures per path since its last success
    \* ---- promiseTimeout (SpecGuard); in Spec, the write of a saveChanges
    \* that lost its race
    guard,
    \* ---- the one object of a small specification: the text of stripAllBOMs
    \* (SpecStrip), the SchedulableRulesManager and its clock (SpecRules),
    \* the TaskLogger, its clock and its log file (SpecLogger)
    norm

vars == <<disk, dirs, occupied, skipDiffView, dvp, hist,
          pc, inv, loc, trace, mistakes, taskMistakes, hFails, guard,
          norm>>

fsVars   == <<disk, dirs, occupied, skipDiffView, dvp>>
toolVars == <<pc, inv, loc, trace, mistakes, taskMistakes, hFails>>

-----------------------------------------------------------------------------
(* Text.  A content is a sequence of characters; BOM is U+FEFF, NL is "\n". *)

BOM == "BOM"
NL  == "NL"

\* undefined, for a field or a parameter that holds a name.
Undefined == "undefined"
\* undefined, for a field that holds text; the content of a missing file.
NoText == <<"undefined">>
Absent == <<"absent">>

\* The contents the strategy, the clients and the initial files draw from.
Contents ==
    { <<>>, <<BOM, "a">>, <<BOM, BOM>>, <<"a", NL, "b">> }

\* strip-bom: drops one leading U+FEFF.
stripBom(s) ==
    IF Len(s) > 0 /\ Head(s) = BOM THEN Tail(s) ELSE s

MutStripAllBOMs(input) == stripBom(input)

\* stripAllBOMs(input): strip-bom, repeated until nothing changes.
RECURSIVE stripAllBOMs(_)
stripAllBOMs(input) ==
    LET result == stripBom(input)
    IN  IF result # input THEN stripAllBOMs(result) ELSE result

\* String.prototype.split("\n"): the lines of a content, at least one.
RECURSIVE SplitLines(_)
SplitLines(s) ==
    IF \A i \in 1..Len(s) : s[i] # NL
    THEN <<s>>
    ELSE LET k == CHOOSE i \in 1..Len(s) :
                      s[i] = NL /\ \A j \in 1..(i - 1) : s[j] # NL
         IN  <<SubSeq(s, 1, k - 1)>> \o SplitLines(SubSeq(s, k + 1, Len(s)))

\* Array.prototype.pop
Pop(a) == IF Len(a) = 0 THEN a ELSE SubSeq(a, 1, Len(a) - 1)

RECURSIVE Reverse(_)
Reverse(s) == IF s = <<>> THEN <<>> ELSE Reverse(Tail(s)) \o <<Head(s)>>

Range(s) == { s[i] : i \in 1..Len(s) }

-----------------------------------------------------------------------------
(* The file system: two files, "p" in the working directory and "q" below  *)
(* the directories d1/d2.                                                   *)

Paths == {"p", "q"}
Dirs  == {"d1", "d2"}

\* path.dirname, repeated: the directories above a file, topmost first.
ParentDirs(path) == IF path = "q" THEN <<"d1", "d2">> ELSE <<>>

\* The directories directly below d.
ChildDirs(d) == IF d = "d1" THEN {"d2"} ELSE {}

\* The files directly in d.
FilesIn(d) == IF d = "d2" THEN {"q"} ELSE {}

\* A file system state is well formed: a directory has its parent, a file
\* its directory.
WellFormedFs(dk, dr) ==
    /\ ("d2" \in dr => "d1" \in dr)
    /\ \A p \in Paths : dk[p] # Absent => Range(ParentDirs(p)) \subseteq dr

\* fs.writeFile fails (ENOENT) when the file's directory is missing.
CanWrite(dr, path) == Range(ParentDirs(path)) \subseteq dr

\* fs.rmdir fails on a missing or a non-empty directory.
CanRmdir(dk, dr, occ, d) ==
    /\ d \in dr
    /\ ChildDirs(d) \cap dr = {}
    /\ \A f \in FilesIn(d) : dk[f] = Absent
    /\ d \notin occ

\* createDirectoriesForFile: the missing directories above the file, in the
\* order they are created (topmost first).
createDirectoriesForFile(dr, path) ==
    SelectSeq(ParentDirs(path), LAMBDA d : d \notin dr)

-----------------------------------------------------------------------------
(* DiffViewProvider: the Edit Session.  Each method is a function from the *)
(* state it reads to the state it leaves, with `threw` telling whether it   *)
(* ended by throwing.  What the editor and the file system decide is passed *)
(* in as env.                                                               *)

\* The fields as the class initialises them.
InitDvp ==
    [ editType               |-> Undefined,
      isEditing              |-> FALSE,
      originalContent        |-> NoText,
      createdDirs            |-> <<>>,
      documentWasOpen        |-> FALSE,
      relPath                |-> Undefined,
      newContent             |-> NoText,
      activeDiffEditor       |-> FALSE,
      fadedOverlayController |-> FALSE,
      activeLineController   |-> FALSE,
      streamedLines          |-> <<>>,
      preDiagnostics         |-> {} ]

MutReset(s) == s

\* reset(): relPath and newContent are not among the fields it clears.
reset(s) ==
    [ s EXCEPT !.editType               = Undefined,
               !.isEditing              = FALSE,
               !.originalContent        = NoText,
               !.createdDirs            = <<>>,
               !.documentWasOpen        = FALSE,
               !.activeDiffEditor       = FALSE,
               !.fadedOverlayController = FALSE,
               !.activeLineController   = FALSE,
               !.streamedLines          = <<>>,
               !.preDiagnostics         = {} ]

\* open(relPath).  env.tabWasOpen: a tab shows the file; env.editorOpens:
\* the diff editor becomes active before openDiffEditor gives up;
\* env.diagnostics: what vscode.languages.getDiagnostics() gives.
open(s, dk, dr, skip, relPath, env) ==
    LET fileExists == s.editType = "modify"
        s1 == [s EXCEPT !.relPath = relPath, !.isEditing = TRUE,
                        !.preDiagnostics = env.diagnostics]
        s2 == [s1 EXCEPT !.originalContent =
                            IF fileExists THEN dk[relPath] ELSE <<>>]
        created == createDirectoriesForFile(dr, relPath)
        dr2 == dr \cup Range(created)
        s3 == [s2 EXCEPT !.createdDirs = created]
        dk2 == IF fileExists THEN dk ELSE [dk EXCEPT ![relPath] = <<>>]
        s4 == [s3 EXCEPT !.documentWasOpen = env.tabWasOpen]
        s5 == [s4 EXCEPT !.activeDiffEditor       = TRUE,
                         !.fadedOverlayController = TRUE,
                         !.activeLineController   = TRUE,
                         !.streamedLines          = <<>>]
    IN  IF fileExists /\ dk[relPath] = Absent
        THEN \* fs.readFile rejects: ENOENT
             [dvp |-> s1, disk |-> dk, dirs |-> dr, threw |-> TRUE]
        ELSE IF skip
        THEN [dvp |-> s3, disk |-> dk2, dirs |-> dr2, threw |-> FALSE]
        ELSE IF ~env.editorOpens
        THEN [dvp |-> s4, disk |-> dk2, dirs |-> dr2, threw |-> TRUE]
        ELSE [dvp |-> s5, disk |-> dk2, dirs |-> dr2, threw |-> FALSE]

MutDirectWrite(skip) == TRUE

\* if (this.skipDiffView): update writes the file itself.
DirectWrite(skip) == skip

\* update(accumulatedContent, isFinal).  env.uiFails: showing the complete
\* diff of a final update fails.
update(s, dk, dr, skip, accumulatedContent, isFinal, env) ==
    LET s1 == [s EXCEPT !.newContent = accumulatedContent]
        accumulatedLines ==
            IF isFinal THEN SplitLines(accumulatedContent)
                       ELSE Pop(SplitLines(accumulatedContent))
    IN  IF s.relPath = Undefined
        THEN [dvp |-> s, disk |-> dk, threw |-> TRUE]
        ELSE IF DirectWrite(skip)
        THEN IF ~CanWrite(dr, s.relPath)
             THEN [dvp |-> s1, disk |-> dk, threw |-> TRUE]
             ELSE [dvp  |-> [s1 EXCEPT !.streamedLines =
                                          SplitLines(accumulatedContent)],
                   disk |-> [dk EXCEPT ![s.relPath] =
                                          stripAllBOMs(accumulatedContent)],
                   threw |-> FALSE]
        ELSE IF ~s.activeLineController \/ ~s.fadedOverlayController
        THEN [dvp |-> s1, disk |-> dk, threw |-> TRUE]
        ELSE IF ~s.activeDiffEditor
        THEN [dvp |-> s1, disk |-> dk, threw |-> TRUE]
        ELSE [dvp   |-> [s1 EXCEPT !.streamedLines = accumulatedLines],
              disk  |-> dk,
              threw |-> isFinal /\ s.originalContent # accumulatedContent
                                /\ env.uiFails]

MutUserEdits == <<"edited">>

\* userEdits: undefined, in what saveChanges returns after the write.
UserEdits == NoText

\* What saveChanges returns when it has nothing to save.
NothingSaved ==
    [newProblemsMessage |-> NoText, userEdits |-> NoText,
     finalContent |-> NoText]

\* `\n\nNew problems detected after saving the file:\n${newProblems}`, or "".
NewProblemsMessage(newProblems) ==
    IF Len(newProblems) > 0
    THEN <<"New problems detected after saving the file:">> \o newProblems
    ELSE <<>>

\* A diagnostic of the editor: what it is about and its severity.
Diagnostic(id, severity) == [id |-> id, severity |-> severity]
KnownDiagnostics ==
    << Diagnostic("E1", "Error"), Diagnostic("W1", "Warning"),
       Diagnostic("E2", "Error") >>

\* getNewDiagnostics(oldDiagnostics, newDiagnostics): the diagnostics of the
\* new snapshot that the old one does not hold.
getNewDiagnostics(oldDiagnostics, newDiagnostics) ==
    newDiagnostics \ oldDiagnostics

\* diagnosticsToProblemsString(diagnostics, severities): one line for each
\* diagnostic of one of the severities, and "" when there is none.
diagnosticsToProblemsString(diagnostics, severities) ==
    LET kept == SelectSeq(KnownDiagnostics,
                    LAMBDA d : d \in diagnostics /\ d.severity \in severities)
    IN  [i \in 1..Len(kept) |-> kept[i].id]

MutReportedSeverities == {"Error", "Warning"}

\* [vscode.DiagnosticSeverity.Error]
ReportedSeverities == {"Error"}

MutDiagnosticsBaseline(s) == {}

\* The snapshot saveChanges compares with: this.preDiagnostics.
DiagnosticsBaseline(s) == s.preDiagnostics

\* const newProblems = await diagnosticsToProblemsString(
\*     getNewDiagnostics(this.preDiagnostics, postDiagnostics), [Error], cwd)
NewProblems(s, postDiagnostics) ==
    diagnosticsToProblemsString(
        getNewDiagnostics(DiagnosticsBaseline(s), postDiagnostics),
        ReportedSeverities)

\* saveChanges().  env.postDiagnostics: what getDiagnostics() gives after
\* the write; env.ioFails: the write is refused; env.uiFails: showing the
\* saved document fails.
saveChanges(s, dk, dr, skip, env) ==
    IF s.relPath = Undefined \/ s.newContent = NoText \/ s.newContent = <<>>
    THEN [dvp |-> s, disk |-> dk, threw |-> FALSE, ret |-> NothingSaved]
    ELSE IF ~CanWrite(dr, s.relPath) \/ env.ioFails
    THEN [dvp |-> s, disk |-> dk, threw |-> TRUE, ret |-> NothingSaved]
    ELSE [dvp   |-> s,
          disk  |-> [dk EXCEPT ![s.relPath] = stripAllBOMs(s.newContent)],
          threw |-> ~skip /\ env.uiFails,
          ret   |-> [newProblemsMessage |->
                         NewProblemsMessage(NewProblems(s, env.postDiagnostics)),
                     userEdits          |-> UserEdits,
                     finalContent       |-> s.newContent]]

MutRevertOrder(createdDirs) == createdDirs

\* The order in which revertChanges visits createdDirs: from the last index
\* down to the first.
RevertOrder(createdDirs) == Reverse(createdDirs)

MutAfterRmdirError(todo) == <<>>

\* catch (error) { console.error(...) } inside the loop: the directories
\* still to visit after a failed rmdir of the first of `todo`.
AfterRmdirError(todo) == Tail(todo)

\* The rmdir loop of revertChanges over the directories `todo`: a failing
\* rmdir is logged and the loop goes on.
RECURSIVE RmdirLoop(_, _, _, _)
RmdirLoop(dk, dr, occ, todo) ==
    IF todo = <<>>
    THEN [dirs |-> dr, attempts |-> <<>>]
    ELSE LET d    == Head(todo)
             ok   == CanRmdir(dk, dr, occ, d)
             dr2  == IF ok THEN dr \ {d} ELSE dr
             rest == RmdirLoop(dk, dr2, occ,
                         IF ok THEN Tail(todo) ELSE AfterRmdirError(todo))
         IN  [dirs |-> rest.dirs, attempts |-> <<d>> \o rest.attempts]

MutRevertContent(s) == IF s.newContent = NoText THEN <<>> ELSE s.newContent

\* What revertChanges writes back in modify mode: originalContent ?? "".
RevertContent(s) ==
    IF s.originalContent = NoText THEN <<>> ELSE s.originalContent

\* revertChanges().
revertChanges(s, dk, dr, occ, skip) ==
    LET fileExists == s.editType = "modify"
        unlinked   == [dk EXCEPT ![s.relPath] = Absent]
        loop       == RmdirLoop(unlinked, dr, occ, RevertOrder(s.createdDirs))
        original   == RevertContent(s)
    IN  IF s.relPath = Undefined
        THEN [dvp |-> s, disk |-> dk, dirs |-> dr, threw |-> FALSE,
              attempts |-> <<>>]
        ELSE IF ~fileExists
        THEN IF dk[s.relPath] = Absent
             THEN \* fs.unlink rejects: ENOENT
                  [dvp |-> s, disk |-> dk, dirs |-> dr, threw |-> TRUE,
                   attempts |-> <<>>]
             ELSE [dvp |-> reset(s), disk |-> unlinked, dirs |-> loop.dirs,
                   threw |-> FALSE, attempts |-> loop.attempts]
        ELSE IF ~CanWrite(dr, s.relPath)
        THEN [dvp |-> s, disk |-> dk, dirs |-> dr, threw |-> TRUE,
              attempts |-> <<>>]
        ELSE [dvp |-> reset(s),
              disk |-> [dk EXCEPT ![s.relPath] = original],
              dirs |-> dr, threw |-> FALSE, attempts |-> <<>>]

-----------------------------------------------------------------------------
(* SpecSession: the Edit Session driven by an arbitrary client.  hist keeps *)
(* what the client did: the phase its calls have brought the session to,    *)
(* and what the last open and the last final update were given.             *)

\* What the editor and the file system may decide during one call.  In
\* direct-write mode no call reaches the editor.
\* The editor's diagnostics when a session is opened and after its save.
PreDiagnostics == { {Diagnostic("E1", "Error")} }
PostDiagnostics ==
    { {Diagnostic("E1", "Error")},
      {Diagnostic("E1", "Error"), Diagnostic("E2", "Error")} }
OpenEnvs ==
    IF skipDiffView
    THEN [tabWasOpen : {FALSE}, editorOpens : {TRUE},
          diagnostics : PreDiagnostics]
    ELSE [tabWasOpen : BOOLEAN, editorOpens : BOOLEAN,
          diagnostics : PreDiagnostics]
UpdateEnvs(isFinal) ==
    IF skipDiffView \/ ~isFinal
    THEN {[uiFails |-> FALSE]}
    ELSE [uiFails : BOOLEAN]
SaveEnvs ==
    [uiFails : IF skipDiffView THEN {FALSE} ELSE BOOLEAN,
     ioFails : BOOLEAN, postDiagnostics : PostDiagnostics]

\* The client leaves editType as it is.
Keep == "keep"

\* The phases in which the session is open: open() returned, and since then
\* only update() was called and returned.
OpenPhases == {"opened", "streaming", "final"}

InitHist ==
    [ phase    |-> "empty",
      calls    |-> 0,
      path     |-> Undefined, mode    |-> Undefined,
      original |-> NoText,    created |-> <<>>,
      content  |-> NoText,    attempts |-> <<>>,
      pre      |-> {},        \* getDiagnostics() at the last open
      post     |-> {},        \* getDiagnostics() at the last saveChanges
      message  |-> NoText ]   \* newProblemsMessage of the last saveChanges

\* The variables of applyDiffTool and of promiseTimeout, at rest.
ToolAtRest ==
    /\ pc = "idle"
    /\ inv = [partial |-> FALSE]
    /\ loc = [applied |-> "none"]
    /\ trace = <<>>
    /\ mistakes = << >>
    /\ taskMistakes = 0
    /\ hFails = [p \in Paths |-> 0]

GuardAtRest == guard = [state |-> "unused"]
NormAtRest == norm = [state |-> "unused"]

\* The calls one client makes in a run.
MaxCalls == 4

InitSession ==
    /\ dirs \in {{}, {"d1"}, {"d1", "d2"}}
    /\ disk \in [Paths -> {<<"a">>, <<BOM, "a">>, Absent}]
    /\ disk["p"] = <<"a">>
    /\ WellFormedFs(disk, dirs)
    /\ occupied = {}
    /\ skipDiffView \in BOOLEAN
    /\ dvp = InitDvp
    /\ hist = InitHist
    /\ ToolAtRest
    /\ GuardAtRest
    /\ NormAtRest

\* The client sets editType (unless it keeps it) and calls open(path).
SOpen(path, et, env) ==
    LET s0 == IF et = Keep THEN dvp ELSE [dvp EXCEPT !.editType = et]
        r  == open(s0, disk, dirs, skipDiffView, path, env)
    IN  /\ hist.calls < MaxCalls
        /\ dvp' = r.dvp
        /\ disk' = r.disk
        /\ dirs' = r.dirs
        /\ hist' = [ phase    |-> IF r.threw THEN "broken" ELSE "opened",
                     calls    |-> hist.calls + 1,
                     path     |-> path,
                     mode     |-> IF s0.editType = "modify"
                                  THEN "modify" ELSE "create",
                     original |-> disk[path],
                     created  |-> SelectSeq(ParentDirs(path),
                                            LAMBDA d : d \in r.dirs \ dirs),
                     content  |-> NoText,
                     attempts |-> <<>>,
                     pre      |-> env.diagnostics,
                     post     |-> {},
                     message  |-> NoText ]
        /\ UNCHANGED <<occupied, skipDiffView>>

SUpdate(content, isFinal, env) ==
    LET r == update(dvp, disk, dirs, skipDiffView, content, isFinal, env)
    IN  /\ hist.calls < MaxCalls
        /\ dvp' = r.dvp
        /\ disk' = r.disk
        /\ hist' = [hist EXCEPT
                      !.calls = @ + 1,
                      !.phase = IF r.threw \/ hist.phase \notin OpenPhases
                                THEN "broken"
                                ELSE IF isFinal THEN "final" ELSE "streaming",
                      !.content = IF isFinal THEN content ELSE NoText]
        /\ UNCHANGED <<dirs, occupied, skipDiffView>>

SSave(env) ==
    LET r == saveChanges(dvp, disk, dirs, skipDiffView, env)
        saved == ~r.threw /\ hist.phase = "final"
    IN  /\ hist.calls < MaxCalls
        /\ dvp' = r.dvp
        /\ disk' = r.disk
        /\ hist' = [hist EXCEPT
                      !.calls = @ + 1,
                      !.phase = IF saved THEN "saved" ELSE "broken",
                      !.post = IF saved THEN env.postDiagnostics ELSE {},
                      !.message = IF saved THEN r.ret.newProblemsMessage
                                  ELSE NoText]
        /\ UNCHANGED <<dirs, occupied, skipDiffView>>

SRevert ==
    LET r == revertChanges(dvp, disk, dirs, occupied, skipDiffView)
    IN  /\ hist.calls < MaxCalls
        /\ dvp' = r.dvp
        /\ disk' = r.disk
        /\ dirs' = r.dirs
        /\ hist' = [hist EXCEPT
                      !.calls = @ + 1,
                      !.phase = IF r.threw \/ hist.phase \notin OpenPhases
                                THEN "broken" ELSE "reverted",
                      !.attempts = r.attempts]
        /\ UNCHANGED <<occupied, skipDiffView>>

SReset ==
    /\ hist.calls < MaxCalls
    /\ dvp' = reset(dvp)
    /\ hist' = [hist EXCEPT !.calls = @ + 1, !.phase = "empty"]
    /\ UNCHANGED <<disk, dirs, occupied, skipDiffView>>

\* Somebody else writes an entry into an existing directory.
OtherWriter(d) ==
    /\ d \in dirs
    /\ d \notin occupied
    /\ occupied' = occupied \cup {d}
    /\ UNCHANGED <<disk, dirs, skipDiffView, dvp, hist>>

NextSession ==
    \/ \E path \in Paths, et \in {"create", "modify", Keep}, env \in OpenEnvs :
           SOpen(path, et, env) /\ UNCHANGED <<toolVars, guard, norm>>
    \/ \E c \in Contents, isFinal \in BOOLEAN :
       \E env \in UpdateEnvs(isFinal) :
           SUpdate(c, isFinal, env) /\ UNCHANGED <<toolVars, guard, norm>>
    \/ \E env \in SaveEnvs : SSave(env) /\ UNCHANGED <<toolVars, guard, norm>>
    \/ SRevert /\ UNCHANGED <<toolVars, guard, norm>>
    \/ SReset /\ UNCHANGED <<toolVars, guard, norm>>
    \/ \E d \in Dirs : OtherWriter(d) /\ UNCHANGED <<toolVars, guard, norm>>

SpecSession == InitSession /\ [][NextSession]_vars

-----------------------------------------------------------------------------
(* SpecDiagnostics: the Edit Session of one client that edits "p" in modify *)
(* mode, under every combination of the editor's diagnostics at open and    *)
(* after the save.                                                          *)

AllDiagnostics == SUBSET Range(KnownDiagnostics)

InitDiagnostics ==
    /\ dirs = {"d1", "d2"}
    /\ disk = [p \in Paths |-> <<"a">>]
    /\ occupied = {}
    /\ skipDiffView \in BOOLEAN
    /\ dvp = InitDvp
    /\ hist = InitHist
    /\ ToolAtRest
    /\ GuardAtRest
    /\ NormAtRest

NextDiagnostics ==
    \/ \E env \in [tabWasOpen : {FALSE}, editorOpens : {TRUE},
                    diagnostics : AllDiagnostics] :
           SOpen("p", "modify", env) /\ UNCHANGED <<toolVars, guard, norm>>
    \/ \E c \in {<<>>, <<"a", NL, "b">>} :
           SUpdate(c, TRUE, [uiFails |-> FALSE])
               /\ UNCHANGED <<toolVars, guard, norm>>
    \/ \E env \in [uiFails : {FALSE}, ioFails : {FALSE},
                    postDiagnostics : AllDiagnostics] :
           SSave(env) /\ UNCHANGED <<toolVars, guard, norm>>
    \/ SReset /\ UNCHANGED <<toolVars, guard, norm>>

SpecDiagnostics == InitDiagnostics /\ [][NextDiagnostics]_vars

-----------------------------------------------------------------------------
(* applyDiffTool.  Texts are records: `text` names the template, the other  *)
(* fields are what the template interpolates.                               *)

DefaultTimeoutMs == 30000

\* options.timeoutMs, as the callers may set it.
TimeoutOptions == {DefaultTimeoutMs, 5 * 1000}

\* `${timeoutMs / 1000}`
Seconds(timeoutMs) == timeoutMs \div 1000

\* No text.
NoMsg == [text |-> "none"]

\* One entry of what an invocation did.
Ev(ev, kind, msg) == [ev |-> ev, kind |-> kind, msg |-> msg]

\* A guarded step was started; `settled` tells what its promise had done
\* when the deadline passed.
Call(step, settled) == Ev("call", step, [text |-> settled.kind])

\* Map.get(relPath) || 0, Map.set, Map.delete on the per-path counts.
Get(m, p) == IF p \in DOMAIN m THEN m[p] ELSE 0
Put(m, p, v) == [x \in DOMAIN m \cup {p} |-> IF x = p THEN v ELSE m[x]]
Delete(m, p) == [x \in DOMAIN m \ {p} |-> m[x]]

\* formatResponse.toolError(text)
ToolError(msg) == [text |-> "tool error", of |-> msg]

\* cline.sayAndCreateMissingParamError("apply_diff", param)
MissingParamError(param) == [text |-> "missing parameter", param |-> param]

\* formatResponse.rooIgnoreError(relPath)
RooIgnoreError(relPath) == [text |-> "rooignore", path |-> relPath]

MutGuardMessage(step, timeoutMs) ==
    [text |-> "operation timed out after", step |-> step, secs |-> timeoutMs]

\* The errorMessage handed to promiseTimeout for a step:
\* `<step> operation timed out after ${timeoutMs / 1000} seconds`.
GuardMessage(step, timeoutMs) ==
    [text |-> "operation timed out after", step |-> step,
     secs |-> Seconds(timeoutMs)]

\* An Error: its message, and whether the message includes "timed out".
Error(msg, includesTimedOut) ==
    [message |-> msg, includesTimedOut |-> includesTimedOut]

\* The errors an operation may itself reject with: Node's ENOENT-like
\* errors, and ETIMEDOUT, whose message is "connection timed out".
OpErrors ==
    { Error([text |-> "EIO"], FALSE),
      Error([text |-> "ETIMEDOUT: connection timed out"], TRUE) }

\* promiseTimeout(promise, timeoutMs, errorMessage), by what the promise
\* has done when the deadline passes: `settled` is the promise's outcome if
\* it settled first, and [kind |-> "pending"] if the timer fired first.
promiseTimeout(settled, errorMessage) ==
    IF settled.kind # "pending"
    THEN settled
    ELSE [kind |-> "error", error |-> Error(errorMessage, TRUE)]

\* What a promise may have done when the deadline passes, given the value
\* it resolves with if it resolves.
Settlements(value) ==
    {[kind |-> "value", value |-> value], [kind |-> "pending"]}
        \cup {[kind |-> "error", error |-> e] : e \in OpErrors}

\* error instanceof Error && error.message.includes("timed out")
IsTimeout(error) == error.includesTimedOut

MutTimeoutMessage(step, relPath, timeoutMs) ==
    [text |-> "Operation timed out when", step |-> step, path |-> relPath,
     secs |-> timeoutMs]

\* The timeoutMessage of the three inner catch blocks.
TimeoutMessage(step, relPath, timeoutMs) ==
    [text |-> "Operation timed out when", step |-> step, path |-> relPath,
     secs |-> Seconds(timeoutMs)]

\* `File does not exist at path: ${absolutePath}...`
NotFoundError(relPath) ==
    [text |-> "File does not exist at path", path |-> relPath]

MutCurrentCount(m, relPath) == 1

\* (cline.consecutiveMistakeCountForApplyDiff.get(relPath) || 0) + 1
CurrentCount(m, relPath) == Get(m, relPath) + 1

MutShouldSurface(currentCount) == currentCount >= 1

\* if (currentCount >= 2): the failure is also shown to the human.
ShouldSurface(currentCount) == currentCount >= 2

\* The loop over failParts: each failed part overwrites formattedError.
RECURSIVE FailPartsError(_, _)
FailPartsError(failParts, formattedError) ==
    IF failParts = <<>>
    THEN formattedError
    ELSE LET failPart == Head(failParts)
         IN  FailPartsError(Tail(failParts),
                 IF failPart.success
                 THEN formattedError
                 ELSE [text |-> "error_details", errors |-> <<failPart.error>>])

\* formattedError of a failure result.
FormattedError(diffResult, relPath) ==
    IF Len(diffResult.failParts) > 0
    THEN FailPartsError(diffResult.failParts, [text |-> ""])
    ELSE [text |-> "Unable to apply diff to file", path |-> relPath,
          errors |-> <<diffResult.error>>]

\* The results a strategy may give.
FailParts(n) == [success |-> FALSE, error |-> n]
OkPart == [success |-> TRUE, error |-> "none"]
FailPartsChoices == { <<>>, <<FailParts("e1"), OkPart, FailParts("e2")>> }
StrategyContents == { <<>>, <<BOM, "a">>, <<"a", NL, "b">> }
StrategyResults ==
    [success : {TRUE}, content : StrategyContents, error : {"none"},
     failParts : FailPartsChoices]
      \cup [success : {FALSE}, content : {NoText}, error : {"e0"},
            failParts : FailPartsChoices]

MutNoStrategyResult ==
    [success |-> TRUE, content |-> NoText,
     error |-> "No diff strategy available", failParts |-> <<>>]

\* diffResult = { success: false, error: "No diff strategy available" }
NoStrategyResult ==
    [success |-> FALSE, content |-> NoText,
     error |-> "No diff strategy available", failParts |-> <<>>]

\* `Changes successfully applied to ${relPath}:\n\n${newProblemsMessage}\n`
\* + partFailHint
SuccessText(relPath, newProblemsMessage, partFailHint) ==
    [text |-> "Changes successfully applied to", path |-> relPath,
     problems |-> newProblemsMessage, hint |-> partFailHint]

\* A block with its options, and what the collaborators answer before the
\* first guarded step: progress (getProgressStatus, for a partial block)
\* and accessAllowed (validateAccess).
Input(partial, path, diff, timeoutMs, hasStrategy, hasController, progress, accessAllowed) ==
    [ block |-> [ partial       |-> partial,
                  path          |-> path,
                  diff          |-> diff,
                  timeoutMs     |-> timeoutMs,
                  hasStrategy   |-> hasStrategy,
                  hasController |-> hasController ],
      progress      |-> progress,
      accessAllowed |-> accessAllowed ]

\* The inputs of an invocation.  What a branch does not read is held at one
\* value: a partial block's diff and options, the options of a block that
\* fails validation, the answer of a collaborator that is not asked.
Inputs ==
    { Input(TRUE, path, TRUE, DefaultTimeoutMs, hasStrategy, TRUE, progress,
            TRUE) :
        path \in Paths \cup {Undefined}, hasStrategy \in BOOLEAN,
        progress \in {"undefined", "empty", "some"} }
    \cup
    { Input(FALSE, path, diff, DefaultTimeoutMs, TRUE, TRUE, "undefined",
            TRUE) :
        path \in Paths \cup {Undefined}, diff \in BOOLEAN }
    \cup
    { Input(FALSE, path, TRUE, DefaultTimeoutMs, TRUE, hasController,
            "undefined", FALSE) :
        path \in Paths, hasController \in BOOLEAN }
    \cup
    { Input(FALSE, path, TRUE, DefaultTimeoutMs, TRUE, FALSE, "undefined",
            TRUE) :
        path \in Paths }
    \cup
    { Input(FALSE, path, TRUE, timeoutMs, hasStrategy, TRUE, "undefined",
            TRUE) :
        path \in Paths, timeoutMs \in TimeoutOptions,
        hasStrategy \in BOOLEAN }

\* The consecutive mistakes after which the run asks for no more edits.
MaxMistakes == 2

\* What an invocation may have changed, as it is when the invocation starts.
Snapshot ==
    [disk |-> disk, dirs |-> dirs, dvp |-> dvp, mistakes |-> mistakes,
     taskMistakes |-> taskMistakes]

InitLoc ==
    [originalContent |-> NoText, diffResult |-> NoStrategyResult,
     saved |-> NothingSaved, error |-> Error(NoMsg, FALSE),
     accessAllowed |-> Undefined,  \* allowed | denied | undefined
     fileExists |-> Undefined,     \* true | false | undefined
     applied |-> "none",    \* history: what the strategy step came to
     abandoned |-> "none",  \* history: the write of a timed-out saveChanges
                            \* at the deadline: landed | pending | refused
     before |-> Snapshot]   \* history: the state the invocation started in

Init ==
    /\ dirs = {"d1", "d2"}
    /\ disk \in [Paths -> {<<"a">>, Absent}]
    /\ disk["p"] = <<"a">>
    /\ occupied = {}
    /\ skipDiffView \in BOOLEAN
    /\ dvp = InitDvp
    /\ hist = InitHist
    /\ pc = "idle"
    /\ inv = [partial |-> FALSE]
    /\ trace = <<>>
    /\ mistakes = << >>
    /\ taskMistakes = 0
    /\ hFails = [p \in Paths |-> 0]
    /\ loc = InitLoc
    /\ GuardAtRest
    /\ NormAtRest

Log(events) == trace' = trace \o events

MutIsPartial(block) == FALSE

\* if (block.partial)
IsPartial(block) == block.partial

MutMissingParam(block) ==
    IF block.path = Undefined THEN "path" ELSE "none"

\* if (!relPath) ... if (!diffContent): the parameter reported missing.
MissingParam(block) ==
    IF block.path = Undefined THEN "path"
    ELSE IF ~block.diff THEN "diff"
    ELSE "none"

\* cline.rooIgnoreController?.validateAccess(relPath): undefined without a
\* controller.
MutValidateAccess(block, accessAllowed) == IF accessAllowed THEN "allowed" ELSE "denied"

ValidateAccess(block, accessAllowed) ==
    IF ~block.hasController THEN Undefined
    ELSE IF accessAllowed THEN "allowed" ELSE "denied"

MutAccessRefused(accessAllowed) == accessAllowed = Undefined

\* if (!accessAllowed)
AccessRefused(accessAllowed) == accessAllowed # "allowed"

\* A block arrives; the invocation runs up to its first guarded step.
\* progress: what getProgressStatus gives for a partial block;
\* accessAllowed: what validateAccess gives.
Begin(block, progress, accessAllowed) ==
    /\ pc = "idle"
    /\ taskMistakes < MaxMistakes
    /\ \A p \in Paths : Get(mistakes, p) < MaxMistakes
    /\ inv' = block
    /\ UNCHANGED <<fsVars, hist, mistakes, hFails, guard, norm>>
    /\ IF IsPartial(block)
       THEN /\ trace' = IF block.hasStrategy /\ progress = "empty"
                        THEN <<>>
                        ELSE <<Ev("ask", "partial", NoMsg)>>
            /\ pc' = "done"
            /\ loc' = InitLoc
            /\ UNCHANGED taskMistakes
       ELSE IF MissingParam(block) # "none"
       THEN LET param == MissingParam(block)
            IN  /\ taskMistakes' = taskMistakes + 1
                /\ loc' = InitLoc
                /\ trace' = << Ev("recordToolError", "apply_diff", NoMsg),
                               Ev("say", "error", MissingParamError(param)),
                               Ev("push", "result", MissingParamError(param)) >>
                /\ pc' = "done"
       ELSE IF AccessRefused(ValidateAccess(block, accessAllowed))
       THEN /\ trace' = << Ev("say", "rooignore_error",
                              [text |-> "path", path |-> block.path]),
                           Ev("push", "result",
                              ToolError(RooIgnoreError(block.path))) >>
            /\ pc' = "done"
            /\ loc' = [InitLoc EXCEPT !.accessAllowed =
                                         ValidateAccess(block, accessAllowed)]
            /\ UNCHANGED taskMistakes
       ELSE /\ trace' = <<>>
            /\ pc' = "exists"
            /\ loc' = [InitLoc EXCEPT !.accessAllowed =
                                         ValidateAccess(block, accessAllowed)]
            /\ UNCHANGED taskMistakes

\* What the inner catch blocks do with a rejected guarded step.
CatchGuarded(step, settled, error) ==
    IF IsTimeout(error)
    THEN LET timeoutMessage == TimeoutMessage(step, inv.path, inv.timeoutMs)
         IN  /\ Log(<< Call(step, settled),
                       Ev("say", "error", timeoutMessage),
                       Ev("push", "result", ToolError(timeoutMessage)) >>)
             /\ pc' = "done"
             /\ loc' = loc
    ELSE /\ Log(<< Call(step, settled), Ev("throw", step, error) >>)
         /\ pc' = "catch"
         /\ loc' = [loc EXCEPT !.error = error]

MutFileMissing(fileExists) == FALSE

\* if (!fileExists)
FileMissing(fileExists) == ~fileExists

\* fileExistsAtPath under promiseTimeout, and the test of its result.
CheckExists(settled) ==
    LET r == promiseTimeout(settled,
                 GuardMessage("Check if file exists", inv.timeoutMs))
    IN  /\ pc = "exists"
        /\ UNCHANGED <<fsVars, hist, inv, mistakes, hFails, guard, norm>>
        /\ IF r.kind = "error"
           THEN /\ CatchGuarded("checking if file exists", settled, r.error)
                /\ UNCHANGED taskMistakes
           ELSE IF FileMissing(r.value)
           THEN /\ taskMistakes' = taskMistakes + 1
                /\ Log(<< Call("checking if file exists", settled),
                          Ev("recordToolError", "apply_diff", NoMsg),
                          Ev("say", "error", NotFoundError(inv.path)),
                          Ev("push", "result", NotFoundError(inv.path)) >>)
                /\ pc' = "done"
                /\ loc' = [loc EXCEPT !.fileExists = "false"]
           ELSE /\ Log(<< Call("checking if file exists", settled) >>)
                /\ pc' = "read"
                /\ loc' = [loc EXCEPT !.fileExists =
                                         IF r.value THEN "true" ELSE "false"]
                /\ UNCHANGED taskMistakes

\* fs.readFile under promiseTimeout.
ReadOriginal(settled) ==
    LET r == promiseTimeout(settled,
                 GuardMessage("File read", inv.timeoutMs))
    IN  /\ pc = "read"
        /\ UNCHANGED <<fsVars, hist, inv, mistakes, taskMistakes, hFails, guard, norm>>
        /\ IF r.kind = "error"
           THEN CatchGuarded("reading file", settled, r.error)
           ELSE /\ Log(<< Call("reading file", settled) >>)
                /\ loc' = [loc EXCEPT !.originalContent = r.value]
                /\ pc' = "apply"

MutClearCount(m, relPath) == << >>

\* cline.consecutiveMistakeCountForApplyDiff.delete(relPath)
ClearCount(m, relPath) == Delete(m, relPath)

\* if (!diffResult.success || !diffResult.content): an empty content is
\* falsy.
ContentMissing(diffResult) ==
    ~diffResult.success \/ diffResult.content = NoText
        \/ diffResult.content = <<>>

MutAfterFailure == "open"

\* The `return` that ends the failure branch.
AfterFailure == "done"

\* diffStrategy.applyDiff under promiseTimeout (or the failure made up when
\* there is no strategy), and the branch on its result.
ApplyDiff(settled) ==
    LET r == IF inv.hasStrategy
             THEN promiseTimeout(settled,
                      GuardMessage("Apply diff", inv.timeoutMs))
             ELSE [kind |-> "value", value |-> NoStrategyResult]
        called == IF inv.hasStrategy
                  THEN << Call("applying diff", settled) >> ELSE <<>>
        diffResult == r.value
        currentCount == CurrentCount(mistakes, inv.path)
        formattedError == FormattedError(diffResult, inv.path)
        typeError == [text |-> "Unexpected state: content is missing"]
    IN  /\ pc = "apply"
        /\ UNCHANGED <<fsVars, hist, inv, guard, norm>>
        /\ IF r.kind = "error"
           THEN /\ CatchGuarded("applying diff", settled, r.error)
                /\ UNCHANGED <<mistakes, taskMistakes, hFails>>
           ELSE IF ~diffResult.success
           THEN /\ taskMistakes' = taskMistakes + 1
                /\ mistakes' = Put(mistakes, inv.path, currentCount)
                /\ hFails' = [hFails EXCEPT ![inv.path] = @ + 1]
                /\ Log(called
                       \o (IF ShouldSurface(currentCount)
                           THEN << Ev("say", "diff_error", formattedError) >>
                           ELSE <<>>)
                       \o << Ev("recordToolError", "apply_diff", formattedError),
                             Ev("push", "result", formattedError) >>)
                /\ pc' = AfterFailure
                /\ loc' = [loc EXCEPT !.diffResult = diffResult,
                                      !.applied = "failure"]
           ELSE /\ taskMistakes' = 0
                /\ mistakes' = ClearCount(mistakes, inv.path)
                /\ hFails' = [hFails EXCEPT ![inv.path] = 0]
                /\ loc' = [loc EXCEPT !.diffResult = diffResult,
                                      !.applied = "success"]
                /\ IF ContentMissing(diffResult)
                   THEN /\ Log(called
                               \o << Ev("say", "error", typeError),
                                     Ev("push", "result", ToolError(typeError)) >>)
                        /\ pc' = "done"
                   ELSE /\ Log(called)
                        /\ pc' = "open"

\* cline.diffViewProvider.editType = "modify"
OpenEditType == "modify"

\* editType = "modify"; await diffViewProvider.open(relPath)
OpenSession(env) ==
    LET r == open([dvp EXCEPT !.editType = OpenEditType],
                  disk, dirs, skipDiffView, inv.path, env)
    IN  /\ pc = "open"
        /\ dvp' = r.dvp
        /\ disk' = r.disk
        /\ dirs' = r.dirs
        /\ Log(<< Ev("open", OpenEditType, NoMsg) >>
               \o IF r.threw THEN << Ev("throw", "open", NoMsg) >> ELSE <<>>)
        /\ pc' = IF r.threw THEN "catch" ELSE "update"
        /\ loc' = IF r.threw
                  THEN [loc EXCEPT !.error = Error([text |-> "open"], FALSE)]
                  ELSE loc
        /\ UNCHANGED <<occupied, skipDiffView, hist, inv, mistakes,
                       taskMistakes, hFails, guard, norm>>

\* The isFinal of the one update: update(diffResult.content, true).
UpdateIsFinal == TRUE

\* await diffViewProvider.update(diffResult.content, true), then
\* scrollToFirstDiff().
UpdateSession(env) ==
    LET content == loc.diffResult.content
        r == update(dvp, disk, dirs, skipDiffView, content, UpdateIsFinal, env)
    IN  /\ pc = "update"
        /\ dvp' = r.dvp
        /\ disk' = r.disk
        /\ Log(<< Ev("update", IF UpdateIsFinal THEN "final" ELSE "partial",
                    [content |-> content]) >>
               \o IF r.threw THEN << Ev("throw", "update", NoMsg) >> ELSE <<>>)
        /\ pc' = IF r.threw THEN "catch" ELSE "ask"
        /\ loc' = IF r.threw
                  THEN [loc EXCEPT !.error = Error([text |-> "update"], FALSE)]
                  ELSE loc
        /\ UNCHANGED <<dirs, occupied, skipDiffView, hist, inv, mistakes,
                       taskMistakes, hFails, guard, norm>>

MutAfterApproval(didApprove) == "save"

\* if (!didApprove) { revertChanges(); return }
AfterApproval(didApprove) == IF didApprove THEN "save" ELSE "revert"

\* const didApprove = await askApproval("tool", completeMessage, ...)
AskApproval(didApprove) ==
    /\ pc = "ask"
    /\ Log(<< Ev("askApproval", IF didApprove THEN "approved" ELSE "rejected",
                 NoMsg) >>)
    /\ pc' = AfterApproval(didApprove)
    /\ UNCHANGED <<fsVars, hist, inv, loc, mistakes, taskMistakes, hFails,
                   guard, norm>>

MutAfterRevert == "save"

\* if (!didApprove) { await revertChanges(); return }: the invocation ends.
AfterRevert == "done"

\* await diffViewProvider.revertChanges(); return
Revert ==
    LET r == revertChanges(dvp, disk, dirs, occupied, skipDiffView)
    IN  /\ pc = "revert"
        /\ dvp' = r.dvp
        /\ disk' = r.disk
        /\ dirs' = r.dirs
        /\ Log(<< Ev("revertChanges", "call", NoMsg) >>
               \o IF r.threw THEN << Ev("throw", "revert", NoMsg) >> ELSE <<>>)
        /\ pc' = IF r.threw THEN "catch" ELSE AfterRevert
        /\ loc' = IF r.threw
                  THEN [loc EXCEPT !.error = Error([text |-> "revert"], FALSE)]
                  ELSE loc
        /\ UNCHANGED <<occupied, skipDiffView, hist, inv, mistakes,
                       taskMistakes, hFails, guard, norm>>

MutAbandoned(path, content) == [state |-> "unused"]

\* The write of a saveChanges that lost the race: Promise.race settles
\* with the timer's rejection and leaves the other promise running.
Abandoned(path, content) ==
    [state |-> "abandoned", path |-> path, content |-> content, at |-> "none"]

\* saveChanges() under promiseTimeout; nothing catches its rejection but
\* the outer catch.  inTime: saveChanges settles before the deadline;
\* landed: the write of an abandoned saveChanges has reached the disk by
\* the deadline.
Save(env, inTime, landed, e) ==
    LET s == saveChanges(dvp, disk, dirs, skipDiffView, env)
        writes == ~s.threw /\ s.ret # NothingSaved
        settled == IF ~inTime THEN [kind |-> "pending"]
                   ELSE IF s.threw THEN [kind |-> "error", error |-> e]
                   ELSE [kind |-> "value", value |-> s.ret]
        r == promiseTimeout(settled,
                 GuardMessage("Saving changes", inv.timeoutMs))
    IN  /\ pc = "save"
        /\ dvp' = s.dvp
        /\ disk' = IF inTime \/ landed THEN s.disk ELSE disk
        /\ guard' = IF ~inTime /\ ~landed /\ writes
                    THEN Abandoned(dvp.relPath, s.disk[dvp.relPath])
                    ELSE guard
        /\ IF r.kind = "error"
           THEN /\ Log(<< Call("saving changes", settled),
                          Ev("throw", "saving changes", r.error) >>)
                /\ loc' = [loc EXCEPT
                              !.error = r.error,
                              !.abandoned = IF inTime THEN "none"
                                            ELSE IF ~writes THEN "refused"
                                            ELSE IF landed THEN "landed"
                                            ELSE "pending"]
                /\ pc' = "catch"
           ELSE /\ Log(<< Call("saving changes", settled) >>)
                /\ loc' = [loc EXCEPT !.saved = r.value]
                /\ pc' = "track"
        /\ UNCHANGED <<dirs, occupied, skipDiffView, hist, inv, mistakes,
                       taskMistakes, hFails, norm>>

\* The write of an abandoned saveChanges reaches the disk while the
\* invocation goes on without it.
LateWrite ==
    /\ guard.state = "abandoned"
    /\ pc \in {"catch", "done"}
    /\ disk' = [disk EXCEPT ![guard.path] = guard.content]
    /\ guard' = [guard EXCEPT !.state = "landed", !.at = pc]
    /\ UNCHANGED <<dirs, occupied, skipDiffView, dvp, hist, toolVars, norm>>

\* The write of an abandoned saveChanges fails; nobody is told.
LateFailure ==
    /\ guard.state = "abandoned"
    /\ pc \in {"catch", "done"}
    /\ guard' = [guard EXCEPT !.state = "lost"]
    /\ UNCHANGED <<fsVars, hist, toolVars, norm>>

\* trackFileContext(relPath, "roo_edited"), the result text, reset().
\* tracked: the tracker returns.
Track(tracked) ==
    LET partFailHint ==
            IF Len(loc.diffResult.failParts) > 0
            THEN "But unable to apply all diff parts" ELSE ""
    IN  /\ pc = "track"
        /\ UNCHANGED <<disk, dirs, occupied, skipDiffView, hist, inv, mistakes,
                       taskMistakes, hFails, guard, norm>>
        /\ IF ~tracked
           THEN /\ Log(<< Ev("trackFileContext", "roo_edited", NoMsg),
                          Ev("throw", "track", NoMsg) >>)
                /\ loc' = [loc EXCEPT !.error = Error([text |-> "track"], FALSE)]
                /\ pc' = "catch"
                /\ dvp' = dvp
           ELSE /\ Log(<< Ev("trackFileContext", "roo_edited", NoMsg) >>
                       \o (IF loc.saved.userEdits # NoText
                           THEN << Ev("say", "user_feedback_diff", NoMsg),
                                   Ev("push", "result",
                                      [text |-> "The user made the following updates",
                                       path |-> inv.path]) >>
                           ELSE << Ev("push", "result",
                                      SuccessText(inv.path,
                                          loc.saved.newProblemsMessage,
                                          partFailHint)) >>)
                       \o << Ev("reset", "call", NoMsg) >>)
                /\ dvp' = reset(dvp)
                /\ loc' = loc
                /\ pc' = "done"

\* handleError(action, error), the generic handler: it reports the error,
\* with the description of the action, to the human and as the tool result.
handleError(action, error) ==
    LET report == [text |-> "Error", action |-> action,
                   error |-> error.message]
    IN  << Ev("say", "error", report), Ev("push", "result", ToolError(report)) >>

MutCatchAction == "listing files"

\* The action description the outer catch gives the handler.
CatchAction == "applying diff"

\* catch (error) { await handleError("applying diff", error); reset() }
Catch ==
    /\ pc = "catch"
    /\ Log(<< Ev("handleError", CatchAction, loc.error.message) >>
           \o handleError(CatchAction, loc.error)
           \o << Ev("reset", "call", NoMsg) >>)
    /\ dvp' = reset(dvp)
    /\ pc' = "done"
    /\ UNCHANGED <<disk, dirs, occupied, skipDiffView, hist, inv, loc,
                   mistakes, taskMistakes, hFails, guard, norm>>

\* The ways a guarded saveChanges may go.  One that settles in time has
\* written before it settles; of one that does not, only whether its write
\* is refused and whether it lands matter.
SaveCases ==
    [env : SaveEnvs, inTime : {TRUE}, landed : {FALSE}, e : OpErrors]
      \cup { [env |-> env, inTime |-> FALSE, landed |-> landed,
              e |-> Error([text |-> "EIO"], FALSE)] :
              env \in {x \in SaveEnvs :
                         /\ ~x.uiFails
                         /\ x.postDiagnostics = {Diagnostic("E1", "Error")}},
              landed \in BOOLEAN }

\* The invocation has returned: its block, its locals and the record of
\* what it did are gone, and the task may hand over the next block.  A
\* write left behind by a timed-out saveChanges has landed or failed by
\* then.
Return ==
    /\ pc = "done"
    /\ guard.state # "abandoned"
    /\ pc' = "idle"
    /\ inv' = [partial |-> FALSE]
    /\ loc' = InitLoc
    /\ trace' = <<>>
    /\ guard' = [state |-> "unused"]
    /\ UNCHANGED <<fsVars, hist, mistakes, taskMistakes, hFails, norm>>

Next ==
    \/ \E in \in Inputs : Begin(in.block, in.progress, in.accessAllowed)
    \/ Return
    \/ /\ pc = "exists"
       /\ \E settled \in Settlements(disk[inv.path] # Absent) :
              CheckExists(settled)
    \/ /\ pc = "read"
       /\ \E settled \in Settlements(disk[inv.path]) : ReadOriginal(settled)
    \/ \E result \in StrategyResults :
       \E settled \in Settlements(result) : ApplyDiff(settled)
    \/ \E env \in OpenEnvs : OpenSession(env)
    \/ \E env \in UpdateEnvs(UpdateIsFinal) : UpdateSession(env)
    \/ \E didApprove \in BOOLEAN : AskApproval(didApprove)
    \/ Revert
    \/ \E c \in SaveCases : Save(c.env, c.inTime, c.landed, c.e)
    \/ \E tracked \in BOOLEAN : Track(tracked)
    \/ Catch
    \/ LateWrite
    \/ LateFailure

Spec == Init /\ [][Next]_vars

-----------------------------------------------------------------------------
(* SpecConcurrent: several invocations of applyDiffTool on one task, each  *)
(* suspended at its awaits while the others run.  Only what touches the     *)
(* counts is kept: pc, inv and loc hold one entry for each invocation.      *)

\* The invocations that may be in flight together.
MaxInvocations == 2
Invocations == 1..MaxInvocations

MutCountedMap(current, atCall) == atCall

\* The map lines 155-158 and 192-193 work on: the task's map as it is when
\* the invocation resumes after the strategy, not as it was when the
\* strategy was called; no await stands between the get and the set.
CountedMap(current, atCall) == current

InitConcurrent ==
    /\ dirs = {"d1", "d2"}
    /\ disk = [p \in Paths |-> <<"a">>]
    /\ occupied = {}
    /\ skipDiffView = TRUE
    /\ dvp = InitDvp
    /\ hist = InitHist
    /\ pc = [i \in Invocations |-> "idle"]
    /\ inv = [i \in Invocations |-> [partial |-> FALSE]]
    /\ loc = [i \in Invocations |-> [atCall |-> << >>]]
    /\ trace = <<>>
    /\ mistakes = << >>
    /\ taskMistakes = 0
    /\ hFails = [p \in Paths |-> 0]
    /\ GuardAtRest
    /\ NormAtRest

\* Invocation i is handed a complete block for relPath and runs up to the
\* await of the existence check.
CBegin(i, relPath) ==
    /\ pc[i] = "idle"
    /\ taskMistakes < MaxMistakes
    /\ \A p \in Paths : Get(mistakes, p) < MaxMistakes
    /\ pc' = [pc EXCEPT ![i] = "exists"]
    /\ inv' = [inv EXCEPT ![i] = [partial |-> FALSE, path |-> relPath]]
    /\ UNCHANGED <<fsVars, hist, loc, trace, mistakes, taskMistakes, hFails,
                   guard, norm>>

\* The existence check of invocation i settles.
CExists(i, fileExists) ==
    /\ pc[i] = "exists"
    /\ pc' = [pc EXCEPT ![i] = IF FileMissing(fileExists) THEN "idle"
                                                          ELSE "read"]
    /\ taskMistakes' = IF FileMissing(fileExists) THEN taskMistakes + 1
                                                  ELSE taskMistakes
    /\ UNCHANGED <<fsVars, hist, inv, loc, trace, mistakes, hFails, guard,
                   norm>>

\* The read of invocation i settles and the strategy is called.
CRead(i) ==
    /\ pc[i] = "read"
    /\ pc' = [pc EXCEPT ![i] = "apply"]
    /\ loc' = [loc EXCEPT ![i] = [atCall |-> mistakes]]
    /\ UNCHANGED <<fsVars, hist, inv, trace, mistakes, taskMistakes, hFails,
                   guard, norm>>

\* The strategy of invocation i settles; the invocation runs up to its next
\* await: after a failure to its return, after a success to the open of
\* the Edit Session.
CApply(i, success) ==
    LET relPath == inv[i].path
        m == CountedMap(mistakes, loc[i].atCall)
    IN  /\ pc[i] = "apply"
        /\ IF ~success
           THEN /\ taskMistakes' = taskMistakes + 1
                /\ mistakes' = Put(m, relPath, CurrentCount(m, relPath))
                /\ hFails' = [hFails EXCEPT ![relPath] = @ + 1]
                /\ pc' = [pc EXCEPT ![i] = "idle"]
           ELSE /\ taskMistakes' = 0
                /\ mistakes' = ClearCount(m, relPath)
                /\ hFails' = [hFails EXCEPT ![relPath] = 0]
                /\ pc' = [pc EXCEPT ![i] = "session"]
        /\ loc' = [loc EXCEPT ![i] = [atCall |-> << >>]]
        /\ UNCHANGED <<fsVars, hist, inv, trace, guard, norm>>

\* Invocation i goes through the rest of the pipeline and returns.
CFinish(i) ==
    /\ pc[i] = "session"
    /\ pc' = [pc EXCEPT ![i] = "idle"]
    /\ UNCHANGED <<fsVars, hist, inv, loc, trace, mistakes, taskMistakes,
                   hFails, guard, norm>>

NextConcurrent ==
    \/ \E i \in Invocations, relPath \in Paths : CBegin(i, relPath)
    \/ \E i \in Invocations, fileExists \in BOOLEAN : CExists(i, fileExists)
    \/ \E i \in Invocations : CRead(i)
    \/ \E i \in Invocations, success \in BOOLEAN : CApply(i, success)
    \/ \E i \in Invocations : CFinish(i)

SpecConcurrent == InitConcurrent /\ [][NextConcurrent]_vars

-----------------------------------------------------------------------------
(* SpecRace: one invocation of applyDiffTool on a file that changes while   *)
(* the invocation is suspended between its own read of the file and the     *)
(* read made by open.                                                       *)

\* The file of the request is written after fs.readFile of the orchestrator
\* has settled and before open reads it: by another writer, or by open
\* itself saving the unsaved changes of the file's document before it
\* reads.
FileChanges(content) ==
    /\ pc \in {"apply", "open"}
    /\ disk[inv.path] = loc.originalContent
    /\ content # loc.originalContent
    /\ disk' = [disk EXCEPT ![inv.path] = content]
    /\ UNCHANGED <<dirs, occupied, skipDiffView, dvp, hist, toolVars, guard, norm>>

NextRace ==
    \/ \E in \in Inputs : Begin(in.block, in.progress, in.accessAllowed)
    \/ /\ pc = "exists"
       /\ \E settled \in Settlements(disk[inv.path] # Absent) :
              CheckExists(settled)
    \/ /\ pc = "read"
       /\ \E settled \in Settlements(disk[inv.path]) : ReadOriginal(settled)
    \/ \E result \in StrategyResults :
       \E settled \in Settlements(result) : ApplyDiff(settled)
    \/ \E content \in Contents : FileChanges(content)
    \/ \E env \in OpenEnvs : OpenSession(env)
    \/ \E env \in UpdateEnvs(UpdateIsFinal) : UpdateSession(env)
    \/ \E didApprove \in BOOLEAN : AskApproval(didApprove)
    \/ Revert
    \/ \E c \in {x \in SaveCases : x.inTime} : Save(c.env, c.inTime, c.landed, c.e)
    \/ \E tracked \in BOOLEAN : Track(tracked)
    \/ Catch

SpecRace == Init /\ [][NextRace]_vars

-----------------------------------------------------------------------------
(* SpecGuard: one call of promiseTimeout as a race in time.  The clock      *)
(* counts milliseconds from the call; the timer set by setTimeout fires     *)
(* when the clock reaches timeoutMs and before it passes it.                *)

\* The longest deadline and the last instant of a run.
MaxTimeoutMs == 2
MaxClock == 4

Pending == [kind |-> "pending"]
Never == 0 - 1

\* What the guarded operations settle with.
GuardOutcomes ==
    { [kind |-> "value", value |-> "v1"], [kind |-> "value", value |-> "v2"] }
        \cup { [kind |-> "error", error |-> e] : e \in OpErrors }

\* The errorMessage arguments.
GuardMessages ==
    { GuardMessage("File read", DefaultTimeoutMs),
      [text |-> "Operation timed out"] }

\* Promise.race([promise, timeoutPromise]): the first to settle decides;
\* what settles later is dropped.
Race(result, outcome) == IF result = Pending THEN outcome ELSE result

MutTimerRejection(errorMessage) ==
    [kind |-> "error", error |-> Error([text |-> "Operation timed out"], TRUE)]

\* reject(new Error(errorMessage)), in the setTimeout callback.
TimerRejection(errorMessage) ==
    [kind |-> "error", error |-> Error(errorMessage, TRUE)]

\* promiseTimeout(promise, timeoutMs, errorMessage) has been called: the
\* timer is set, nothing has settled.
GuardCalled(timeoutMs, errorMessage) ==
    [ state        |-> "racing",
      clock        |-> 0,
      timeoutMs    |-> timeoutMs,
      errorMessage |-> errorMessage,
      promise      |-> Pending,   \* the guarded promise
      settledAt    |-> Never,     \* when it settled
      timer        |-> "set",     \* set | fired | cleared
      firedAt      |-> Never,
      result       |-> Pending ]  \* what promiseTimeout settles with

InitGuard ==
    /\ dirs = {"d1", "d2"}
    /\ disk = [p \in Paths |-> <<"a">>]
    /\ occupied = {}
    /\ skipDiffView = FALSE
    /\ dvp = InitDvp
    /\ hist = InitHist
    /\ ToolAtRest
    /\ \E timeoutMs \in 0..MaxTimeoutMs, errorMessage \in GuardMessages :
           guard = GuardCalled(timeoutMs, errorMessage)
    /\ NormAtRest

\* finally { clearTimeout(timeoutId) }: runs once the race has settled.
ClearTimeout(timer) == IF timer = "set" THEN "cleared" ELSE timer

\* The guarded promise settles.
GSettle(outcome) ==
    /\ guard.state = "racing"
    /\ guard.promise = Pending
    /\ guard' = [guard EXCEPT !.promise = outcome,
                              !.settledAt = guard.clock,
                              !.result = Race(guard.result, outcome),
                              !.timer = ClearTimeout(guard.timer)]

\* The timer fires: timeoutPromise rejects.
GTimerFires ==
    /\ guard.state = "racing"
    /\ guard.timer = "set"
    /\ guard.clock = guard.timeoutMs
    /\ guard' = [guard EXCEPT
                   !.timer = "fired",
                   !.firedAt = guard.clock,
                   !.result = Race(guard.result,
                                   TimerRejection(guard.errorMessage))]

\* A millisecond passes; a timer that is due fires first.
GTick ==
    /\ guard.state = "racing"
    /\ guard.clock < MaxClock
    /\ ~(guard.timer = "set" /\ guard.clock = guard.timeoutMs)
    /\ guard' = [guard EXCEPT !.clock = @ + 1]

NextGuard ==
    \/ \E outcome \in GuardOutcomes :
           GSettle(outcome) /\ UNCHANGED <<fsVars, hist, toolVars, norm>>
    \/ GTimerFires /\ UNCHANGED <<fsVars, hist, toolVars, norm>>
    \/ GTick /\ UNCHANGED <<fsVars, hist, toolVars, norm>>

SpecGuard == InitGuard /\ [][NextGuard]_vars

-----------------------------------------------------------------------------
(* SpecStrip: stripAllBOMs applied to a text, and then to its own result.   *)

\* The longest input.
MaxInputLen == 4

\* The inputs: every text of BOM, a letter and a line break.
StripInputs == UNION { [1..k -> {BOM, "a", NL}] : k \in 0..MaxInputLen }

InitStrip ==
    /\ dirs = {"d1", "d2"}
    /\ disk = [p \in Paths |-> <<"a">>]
    /\ occupied = {}
    /\ skipDiffView = FALSE
    /\ dvp = InitDvp
    /\ hist = InitHist
    /\ ToolAtRest
    /\ GuardAtRest
    /\ \E input \in StripInputs :
           norm = [input |-> input, result |-> NoText, again |-> NoText]

\* stripAllBOMs(input)
Strip ==
    /\ norm.result = NoText
    /\ norm' = [norm EXCEPT !.result = stripAllBOMs(norm.input)]
    /\ UNCHANGED <<fsVars, hist, toolVars, guard>>

\* stripAllBOMs(stripAllBOMs(input))
StripAgain ==
    /\ norm.result # NoText
    /\ norm.again = NoText
    /\ norm' = [norm EXCEPT !.again = stripAllBOMs(norm.result)]
    /\ UNCHANGED <<fsVars, hist, toolVars, guard>>

NextStrip == Strip \/ StripAgain

SpecStrip == InitStrip /\ [][NextStrip]_vars

-----------------------------------------------------------------------------
(* Session claims.                                                          *)

\* A content without its leading byte-order marks.
RECURSIVE WithoutLeadingMarks(_)
WithoutLeadingMarks(c) ==
    IF c # <<>> /\ c[1] = BOM THEN WithoutLeadingMarks(Tail(c)) ELSE c

\* C5: after open in modify mode, updates ending in update(c, final), and
\* saveChanges, each of which returned, the target file holds c without its
\* leading byte-order marks.
C5_SaveWritesFinalContent ==
    (hist.phase = "saved" /\ hist.mode = "modify")
        => disk[hist.path] = WithoutLeadingMarks(hist.content)

\* C6: after open in modify mode, any number of updates, and revertChanges,
\* the target file holds what it held when open captured originalContent.
C6_RevertRestoresOriginal ==
    (hist.phase = "reverted" /\ hist.mode = "modify")
        => disk[hist.path] = hist.original

\* C6 witness: a direct-write update has overwritten the file with other
\* text, and revertChanges has run.
C6_Witness ==
    /\ hist.phase = "reverted" /\ hist.mode = "modify" /\ skipDiffView
    /\ hist.calls = 3
    /\ dvp.newContent # NoText
    /\ stripAllBOMs(dvp.newContent) # hist.original
    /\ disk[hist.path] = hist.original

\* C7: revertChanges of a create-mode session deletes the file and attempts
\* rmdir on exactly the directories open created, last created first; no
\* revertChanges ever attempts another directory.
C7_CreateRevertRemovesCreatedDirs ==
    /\ Range(hist.attempts) \subseteq Range(hist.created)
    /\ (hist.phase = "reverted" /\ hist.mode = "create")
          => /\ disk[hist.path] = Absent
             /\ hist.attempts = Reverse(hist.created)

\* C7 witness: open created both directories, one of which somebody else
\* has written into, and revertChanges has run.
C7_Witness ==
    /\ hist.phase = "reverted" /\ hist.mode = "create"
    /\ hist.created = <<"d1", "d2">>
    /\ hist.attempts = <<"d2", "d1">>
    /\ occupied = {"d1"}
    /\ dirs = {"d1"}

\* C18: after reset(), whatever was called before, every field of the
\* Edit Session has the value it had when the session was constructed.
C18_ResetClearsEveryField ==
    (hist.phase = "empty" /\ hist.calls > 0) => dvp = InitDvp

\* The ids of the diagnostics of error severity that the snapshot after the
\* write holds and the snapshot at open does not.
NewErrors ==
    { d.id : d \in { x \in hist.post :
                        x \notin hist.pre /\ x.severity = "Error" } }

\* C19: the message of a saveChanges that has written the final content
\* lists the new errors, each once, and nothing else; without new errors it
\* is the empty text.
C19_DiagnosticsDelta ==
    (hist.phase = "saved" /\ hist.content # <<>>) =>
        IF NewErrors = {}
        THEN hist.message = <<>>
        ELSE /\ Head(hist.message)
                    = "New problems detected after saving the file:"
             /\ Range(Tail(hist.message)) = NewErrors
             /\ Len(Tail(hist.message)) = Cardinality(NewErrors)

\* C19 witness: one error was there at open; after the write there are also
\* a warning and a new error.
C19_Witness ==
    /\ hist.phase = "saved" /\ hist.content # <<>>
    /\ hist.pre = {Diagnostic("E1", "Error")}
    /\ hist.post = Range(KnownDiagnostics)
    /\ hist.message
         = <<"New problems detected after saving the file:", "E2">>

\* C20: stripping the byte-order marks of a stripped text changes nothing,
\* and a stripped text does not start with a byte-order mark.
C20_StripIdempotent ==
    /\ norm.result # NoText =>
          (norm.result = <<>> \/ Head(norm.result) # BOM)
    /\ norm.again # NoText => norm.again = norm.result

\* C20 witness: a text with three stacked marks, stripped twice.
C20_Witness ==
    /\ norm.input = <<BOM, BOM, BOM, "a">>
    /\ norm.result = <<"a">>
    /\ norm.again = <<"a">>

\* C21: in interactive mode no update, partial or final, writes to disk:
\* while a modify-mode session is open, from open up to saveChanges, the
\* target file holds what it held at open.
C21_InteractiveUpdateKeepsDisk ==
    (~skipDiffView /\ hist.phase \in OpenPhases /\ hist.mode = "modify")
        => disk[hist.path] = hist.original

\* C21 witness: in interactive mode a partial and then a final update have
\* streamed a text that differs from the file, which is as it was at open.
C21_Witness ==
    /\ ~skipDiffView /\ hist.phase = "final" /\ hist.mode = "modify"
    /\ hist.calls = 3
    /\ hist.content = <<"a", NL, "b">>
    /\ dvp.streamedLines = << <<"a">>, <<"b">> >>
    /\ disk[hist.path] = <<"a">>

\* A content without its last line: what is before its last line break.
DropLastLine(c) ==
    IF \A i \in 1..Len(c) : c[i] # NL
    THEN <<>>
    ELSE LET k == CHOOSE i \in 1..Len(c) :
                      c[i] = NL /\ \A j \in (i + 1)..Len(c) : c[j] # NL
         IN  SubSeq(c, 1, k - 1)

\* C22: in direct-write mode an update that returns on an open session has
\* overwritten the target file: a final update with its content, a
\* non-final update with its content less the last line, both without
\* leading byte-order marks.
C22_DirectWriteUpdates ==
    [][\A c \in Contents, isFinal \in BOOLEAN :
          ( /\ skipDiffView
            /\ hist.phase \in OpenPhases
            /\ SUpdate(c, isFinal, [uiFails |-> FALSE])
            /\ hist'.phase \in OpenPhases )
          => disk'[hist.path] =
                 stripAllBOMs(IF isFinal THEN c ELSE DropLastLine(c))]_vars

\* C23: saveChanges called on a session that is open but has had no final
\* update (none at all, or a non-final one last) leaves every file as it is.
C23_SaveOnlyAfterFinal ==
    [][\A env \in SaveEnvs :
          (hist.phase \in {"opened", "streaming"} /\ SSave(env))
              => disk' = disk]_vars

\* C28: an open that returned on a path whose file existed has opened it
\* in modify mode, holds the file's content as originalContent, and has
\* left the file as it was.
C28_OpenModeFromExistence ==
    (hist.phase = "opened" /\ hist.original # Absent) =>
        /\ dvp.editType = "modify"
        /\ dvp.originalContent = hist.original
        /\ disk[hist.path] = hist.original

\* C29: update on a session that was never opened, or was reset, throws
\* and changes neither a file nor a field of the session.
C29_UpdateOnEmpty ==
    [][\A c \in Contents, isFinal \in BOOLEAN :
          (hist.phase = "empty" /\ SUpdate(c, isFinal, [uiFails |-> FALSE]))
              => /\ hist'.phase = "broken"
                 /\ disk' = disk
                 /\ dvp' = dvp]_vars

\* C34: on a session that was reset, or never opened, revertChanges and
\* saveChanges write, delete and create no file and no directory.
C34_NoOpAfterReset ==
    [][(/\ hist.phase = "empty"
        /\ (SRevert \/ \E env \in SaveEnvs : SSave(env)))
           => (disk' = disk /\ dirs' = dirs)]_vars

\* C31: when the rmdir of a directory that open created fails during the
\* revert of a create-mode session, revertChanges still attempts every
\* other created directory, returns without throwing, and leaves every
\* field that reset() assigns cleared.
C31_RevertToleratesRmdirFailure ==
    [][( /\ hist.phase \in OpenPhases /\ hist.mode = "create"
         /\ disk[hist.path] # Absent
         /\ SRevert )
       => /\ hist'.phase = "reverted"
          /\ Range(hist'.attempts) = Range(hist.created)
          /\ Len(hist'.attempts) = Len(hist.created)
          /\ [dvp' EXCEPT !.relPath = Undefined, !.newContent = NoText]
                = InitDvp]_vars

\* C31 witness: somebody else has written into the deeper directory; its
\* rmdir failed first, the rmdir of the upper one was attempted after it,
\* and the revert returned with both directories still there.
C31_Witness ==
    /\ hist.phase = "reverted" /\ hist.mode = "create"
    /\ hist.created = <<"d1", "d2">>
    /\ hist.attempts = <<"d2", "d1">>
    /\ occupied = {"d2"}
    /\ dirs = {"d1", "d2"}
    /\ disk[hist.path] = Absent
    /\ ~dvp.isEditing

-----------------------------------------------------------------------------
(* Guard claims.                                                            *)

\* C8: the guard settles with what settles first.  A promise that settles
\* before the deadline decides the result, value or error; when the timer
\* has fired and the promise had not settled by then, the result is an
\* error carrying the supplied message; at no time is the result anything
\* else than one of the two.
C8_GuardOutcome ==
    LET timedOut == [kind |-> "error",
                     error |-> Error(guard.errorMessage, TRUE)]
    IN  guard.state = "racing" =>
          /\ (guard.settledAt # Never /\ guard.settledAt < guard.timeoutMs)
                => guard.result = guard.promise
          /\ (guard.firedAt # Never
                /\ (guard.settledAt = Never \/ guard.settledAt > guard.firedAt))
                => guard.result = timedOut
          /\ (guard.settledAt # Never /\ guard.firedAt = Never)
                => guard.result = guard.promise
          /\ guard.result # Pending
                => \/ guard.settledAt # Never /\ guard.result = guard.promise
                   \/ guard.firedAt = guard.timeoutMs /\ guard.result = timedOut
          /\ (guard.clock > guard.timeoutMs) => guard.result # Pending

\* C8 witness: the timer has fired, and the promise has settled after it
\* with a value that is dropped.
C8_Witness ==
    /\ guard.state = "racing"
    /\ guard.firedAt # Never
    /\ guard.settledAt > guard.firedAt
    /\ guard.promise.kind = "value"
    /\ guard.result.kind = "error"

-----------------------------------------------------------------------------
(* Orchestrator claims.  They read `trace`, what the invocation did in      *)
(* order, and the histories hFails and loc.applied.                         *)

\* The positions of the trace holding an entry of the given kind.
At(ev, kind) ==
    { i \in 1..Len(trace) : trace[i].ev = ev /\ trace[i].kind = kind }
AtEv(ev) == { i \in 1..Len(trace) : trace[i].ev = ev }

\* The positions of the success result.
AtSuccess ==
    { i \in AtEv("push") :
        trace[i].msg.text = "Changes successfully applied to" }

\* C1: the count of a path is the number of strategy failures on it since
\* its last strategy success, and a path without such failures has no entry.
C1_MistakeCount ==
    \A p \in Paths :
        /\ Get(mistakes, p) = hFails[p]
        /\ (p \in DOMAIN mistakes) <=> (hFails[p] > 0)

\* C1 witness: a second failure in a row on "p" while one failure on "q" is
\* still counted.
C1_Witness ==
    /\ pc = "done"
    /\ loc.applied = "failure"
    /\ mistakes = ("p" :> 2 @@ "q" :> 1)

\* C2: a strategy failure is shown to the human (say "diff_error") exactly
\* when it is at least the second failure in a row on its path; the first
\* one says nothing and only pushes the tool result.
C2_SurfaceFromSecondFailure ==
    (pc = "done" /\ loc.applied = "failure") =>
        /\ (At("say", "diff_error") # {}) <=> (hFails[inv.path] >= 2)
        /\ (hFails[inv.path] = 1) => AtEv("say") = {}
        /\ Cardinality(AtEv("push")) = 1

\* C2 witness: a second failure in a row, surfaced.
C2_Witness ==
    /\ pc = "done" /\ loc.applied = "failure"
    /\ hFails[inv.path] = 2
    /\ At("say", "diff_error") # {}

\* C3: saveChanges, the file-context entry and the success result come only
\* after askApproval returned approval; after a rejection revertChanges is
\* called and none of the three happens.
C3_SaveOnlyAfterApproval ==
    LET committing == At("call", "saving changes")
                        \cup AtEv("trackFileContext") \cup AtSuccess
    IN  /\ \A i \in committing :
              \E j \in At("askApproval", "approved") : j < i
        /\ At("askApproval", "rejected") # {} =>
              /\ committing = {}
              /\ pc = "done" => AtEv("revertChanges") # {}

\* C3 witness: an approved edit, saved, tracked and reported.
C3_Witness ==
    /\ pc = "done"
    /\ At("askApproval", "approved") # {}
    /\ At("call", "saving changes") # {}
    /\ AtEv("trackFileContext") # {}
    /\ AtSuccess # {}

\* C4: after a strategy success, whatever the content, the path has no
\* count, and an invocation that raised no error has opened the session in
\* modify mode, sent the content as one final update and asked for
\* approval once, in this order.
C4_SuccessOpensStreamsAsks ==
    (loc.applied = "success") =>
        /\ inv.path \notin DOMAIN mistakes
        /\ (pc = "done" /\ AtEv("throw") = {}) =>
              \E i, j, k \in 1..Len(trace) :
                  /\ i < j /\ j < k
                  /\ AtEv("open") = {i} /\ trace[i].kind = "modify"
                  /\ AtEv("update") = {j} /\ trace[j].kind = "final"
                  /\ trace[j].msg.content = loc.diffResult.content
                  /\ AtEv("askApproval") = {k}

\* The timeout tool error of a step, for the invocation's path and budget.
TimeoutToolErrorOf(step, m) ==
    /\ m.text = "tool error"
    /\ m.of.text = "Operation timed out when"
    /\ m.of.step = step
    /\ m.of.path = inv.path
    /\ m.of.secs * 1000 = inv.timeoutMs

\* C9: an existence check that outlasts its budget ends the invocation with
\* the timeout tool error of the existence check; nothing is read or
\* written, the strategy is not invoked and no session is opened.
C9_ExistsTimeout ==
    (pc # "exists" /\ Len(trace) > 0
       /\ trace[1] = Call("checking if file exists", Pending)) =>
        /\ pc = "done"
        /\ Len(trace) = 3
        /\ trace[2].ev = "say"
        /\ trace[3].ev = "push"
        /\ TimeoutToolErrorOf("checking if file exists", trace[3].msg)
        /\ loc.applied = "none"

\* C9 witness: the existence check has timed out under the 5 s budget.
C9_Witness ==
    /\ pc = "done" /\ Len(trace) > 0
    /\ trace[1] = Call("checking if file exists", Pending)
    /\ inv.timeoutMs = 5000

\* The name a step has in the message of its guard.
GuardLabel(step) ==
    CASE step = "checking if file exists" -> "Check if file exists"
      [] step = "reading file"            -> "File read"
      [] step = "applying diff"           -> "Apply diff"
      [] step = "saving changes"          -> "Saving changes"

\* The tool error reported by the generic handler for the guard's rejection
\* of a step, for the invocation's budget.
HandledGuardErrorOf(step, m) ==
    /\ m.text = "tool error"
    /\ m.of.text = "Error"
    /\ m.of.error.text = "operation timed out after"
    /\ m.of.error.step = GuardLabel(step)
    /\ m.of.error.secs * 1000 = inv.timeoutMs

-----------------------------------------------------------------------------
(* Orchestrator claims on what an invocation leaves alone.                  *)

\* The invocation has left the file system and the Edit Session as they were.
FilesAndSessionUntouched ==
    /\ disk = loc.before.disk
    /\ dirs = loc.before.dirs
    /\ dvp = loc.before.dvp

\* The trace has no call on the Edit Session and no approval request.
NoSessionCall ==
    /\ AtEv("open") = {} /\ AtEv("update") = {}
    /\ AtEv("revertChanges") = {} /\ AtEv("askApproval") = {}
    /\ At("call", "saving changes") = {}

\* C11: a non-partial request without path or without diff ends with the
\* missing-parameter error as its result, the task-level count raised by
\* one, and the per-path counts, the Edit Session and the files unchanged.
C11_MissingParameter ==
    (pc # "idle" /\ ~inv.partial /\ (inv.path = Undefined \/ ~inv.diff)) =>
        LET param == IF inv.path = Undefined THEN "path" ELSE "diff"
        IN  /\ pc = "done"
            /\ trace = << Ev("recordToolError", "apply_diff", NoMsg),
                          Ev("say", "error", MissingParamError(param)),
                          Ev("push", "result", MissingParamError(param)) >>
            /\ taskMistakes = loc.before.taskMistakes + 1
            /\ mistakes = loc.before.mistakes
            /\ FilesAndSessionUntouched

\* C11 witness: the diff is missing, after an earlier request has left a
\* count on "p" and a stale target in the session.
C11_Witness ==
    /\ pc = "done" /\ ~inv.partial /\ inv.path = "p" /\ ~inv.diff
    /\ mistakes = ("p" :> 1)
    /\ taskMistakes = 2
    /\ dvp.relPath = "p"

\* C12: when validateAccess returns false the invocation ends with the
\* policy error as its result; it starts no guarded step, calls nothing on
\* the Edit Session and changes no count.
C12_AccessDenied ==
    (pc # "idle" /\ loc.accessAllowed = "denied") =>
        /\ pc = "done"
        /\ trace = << Ev("say", "rooignore_error",
                         [text |-> "path", path |-> inv.path]),
                      Ev("push", "result",
                         ToolError(RooIgnoreError(inv.path))) >>
        /\ mistakes = loc.before.mistakes
        /\ taskMistakes = loc.before.taskMistakes
        /\ FilesAndSessionUntouched

\* C12 witness: access to "q" is denied while "p" has a count.
C12_Witness ==
    /\ pc = "done" /\ loc.accessAllowed = "denied" /\ inv.path = "q"
    /\ mistakes = ("p" :> 1)

\* C13: when the existence check reports the file absent, the result is the
\* "File does not exist at path" error; no read and no strategy call is
\* started, and the per-path counts and the Edit Session are unchanged.
C13_FileNotFound ==
    (pc # "idle" /\ loc.fileExists = "false") =>
        /\ pc = "done"
        /\ trace = << Call("checking if file exists",
                           [kind |-> "value", value |-> FALSE]),
                      Ev("recordToolError", "apply_diff", NoMsg),
                      Ev("say", "error",
                         [text |-> "File does not exist at path",
                          path |-> inv.path]),
                      Ev("push", "result",
                         [text |-> "File does not exist at path",
                          path |-> inv.path]) >>
        /\ mistakes = loc.before.mistakes
        /\ FilesAndSessionUntouched

\* C13 witness: "q" does not exist, and "p" has a count.
C13_Witness ==
    /\ pc = "done" /\ loc.fileExists = "false" /\ inv.path = "q"
    /\ disk["q"] = Absent
    /\ mistakes = ("p" :> 1)

\* C14: after a failure of the strategy step the invocation calls nothing on
\* the Edit Session, asks for no approval and leaves the files as they were.
C14_FailureLeavesSession ==
    (loc.applied = "failure") =>
        /\ pc = "done"
        /\ NoSessionCall
        /\ FilesAndSessionUntouched

\* C14 witness: a strategy has failed on "p" a second time.
C14_Witness ==
    /\ loc.applied = "failure" /\ pc = "done"
    /\ inv.hasStrategy /\ inv.path = "p"
    /\ At("call", "applying diff") # {}
    /\ mistakes = ("p" :> 2)

\* C15: without a strategy no strategy call is started and the request ends
\* as a strategy failure: the path's count is raised by one, the failure is
\* shown to the human from the second in a row, and the result is the
\* failure error.
C15_NoStrategy ==
    (pc \in {"open", "update", "ask", "save", "revert", "track", "catch", "done"}
       /\ ~inv.partial /\ loc.fileExists = "true"
       /\ loc.originalContent # NoText /\ ~inv.hasStrategy) =>
        LET failure == [text |-> "Unable to apply diff to file",
                        path |-> inv.path,
                        errors |-> <<"No diff strategy available">>]
            count == Get(loc.before.mistakes, inv.path) + 1
        IN  /\ pc = "done"
            /\ loc.applied = "failure"
            /\ At("call", "applying diff") = {}
            /\ mistakes = Put(loc.before.mistakes, inv.path, count)
            /\ At("say", "diff_error") # {} <=> count >= 2
            /\ \E i \in AtEv("push") :
                  /\ AtEv("push") = {i}
                  /\ trace[i].msg = failure

\* C15 witness: no strategy, for the second time in a row on "p".
C15_Witness ==
    /\ pc = "done" /\ ~inv.partial /\ ~inv.hasStrategy
    /\ loc.applied = "failure"
    /\ mistakes = ("p" :> 2)
    /\ At("say", "diff_error") # {}

\* The positions where the generic handler is called.
AtHandled == AtEv("handleError")

\* C16: an invocation in which an error was raised outside the structured
\* outcomes calls the generic handler once, with the action description
\* "applying diff", and then resets the Edit Session; an invocation without
\* such an error does not call the handler.
C16_UnexpectedError ==
    (pc = "done" /\ ~inv.partial) =>
        /\ AtEv("throw") # {} <=> AtHandled # {}
        /\ AtEv("throw") # {} =>
              \E i \in AtEv("throw"), j \in AtHandled :
                  /\ AtEv("throw") = {i}
                  /\ AtHandled = {j}
                  /\ i < j
                  /\ trace[j].kind = "applying diff"
                  /\ trace[j].msg = loc.error.message
                  /\ AtEv("reset") = {Len(trace)}
                  /\ \A k \in (j + 1)..(Len(trace) - 1) :
                        trace[k].ev \in {"say", "push"}
                  /\ dvp = reset(dvp)

\* C16 witness: the final update has thrown with the session open.
C16_Witness ==
    /\ pc = "done" /\ ~inv.partial
    /\ At("throw", "update") # {}
    /\ AtHandled # {}

\* C17: a partial block ends at once: it starts no check and no guarded
\* step, pushes no result, and leaves the task-level count, the per-path
\* counts, the Edit Session and the files as they were; at most it asks the
\* progress indicator to refresh.
C17_PartialBlock ==
    (pc # "idle" /\ inv.partial) =>
        /\ pc = "done"
        /\ trace \in {<<>>, << Ev("ask", "partial", NoMsg) >>}
        /\ taskMistakes = loc.before.taskMistakes
        /\ mistakes = loc.before.mistakes
        /\ FilesAndSessionUntouched

\* C17 witness: a partial block without a path has refreshed the indicator
\* while "p" has a count.
C17_Witness ==
    /\ pc = "done" /\ inv.partial /\ inv.path = Undefined
    /\ trace = << Ev("ask", "partial", NoMsg) >>
    /\ mistakes = ("p" :> 1)
    /\ taskMistakes = 1

\* C24: saveChanges returns no userEdits; an approved edit that is saved
\* and tracked without an error pushes the success result as its only
\* result, and no invocation says user_feedback_diff or pushes the
\* user-edit result.
C24_NoUserEdits ==
    /\ loc.saved.userEdits = NoText
    /\ At("say", "user_feedback_diff") = {}
    /\ \A i \in AtEv("push") :
          trace[i].msg.text # "The user made the following updates"
    /\ (pc = "done" /\ loc.saved # NothingSaved /\ AtEv("throw") = {}) =>
          /\ At("askApproval", "approved") # {}
          /\ AtSuccess = AtEv("push")
          /\ Cardinality(AtSuccess) = 1

\* C24 witness: an approved edit has been saved with new problems reported
\* and has returned with the success result.
C24_Witness ==
    /\ pc = "done"
    /\ At("askApproval", "approved") # {}
    /\ loc.saved.finalContent = <<"a", NL, "b">>
    /\ loc.saved.newProblemsMessage # <<>>
    /\ \E i \in AtSuccess : trace[i].msg.path = inv.path

-----------------------------------------------------------------------------
(* Concurrency claims.                                                      *)

\* The counts the failures and successes give when applied one at a time
\* in the order they occurred.
SequentialCounts ==
    [p \in {q \in Paths : hFails[q] > 0} |-> hFails[p]]

\* The invocations suspended in the strategy call.
InStrategy == {i \in Invocations : pc[i] = "apply"}

\* C25: however the invocations interleave at their awaits, the shared map
\* holds for every path the count that its failures and successes give
\* when applied one at a time in the order they occurred.
C25_NoLostCountUpdate ==
    mistakes = SequentialCounts

\* C25 witness: two invocations on "p" were suspended in the strategy
\* together while a third had counted a failure on "q"; both have failed
\* since, and both failures are counted.
C25_Witness ==
    /\ mistakes = ("p" :> 2 @@ "q" :> 1)
    /\ \A i \in Invocations : pc[i] = "idle" /\ inv[i].partial = FALSE
    /\ \A i \in Invocations : "path" \in DOMAIN inv[i] /\ inv[i].path = "p"
    /\ taskMistakes = 3

\* The save of the invocation has outlasted its budget.
SaveTimedOut ==
    \E i \in At("call", "saving changes") : trace[i].msg.text = "pending"

\* C26: a saveChanges that outlasts its budget is not aborted and its
\* result is dropped: the invocation never holds what it returns, tracks
\* nothing and pushes no success; a write it had not yet made stays in
\* flight until it lands or fails by itself, and when it lands the file
\* holds the streamed content, whatever the invocation has done meanwhile.
C26_AbandonedSave ==
    (pc # "idle" /\ ~inv.partial /\ SaveTimedOut) =>
        /\ loc.saved = NothingSaved
        /\ AtEv("trackFileContext") = {}
        /\ AtSuccess = {}
        /\ loc.abandoned = "pending" =>
              /\ guard.state \in {"abandoned", "landed", "lost"}
              /\ guard.path = inv.path
              /\ guard.content = stripAllBOMs(dvp.newContent)
        /\ guard.state = "landed" => disk[inv.path] = guard.content

\* C26 witness: the save timed out, the handler reported the failure, the
\* session was reset, and only then did the write change the file.
C26_Witness ==
    /\ pc = "done"
    /\ SaveTimedOut
    /\ AtHandled # {} /\ AtEv("reset") = {Len(trace)}
    /\ ~dvp.isEditing
    /\ guard.state = "landed" /\ guard.at = "done"
    /\ disk[inv.path] = <<"a", NL, "b">>
    /\ loc.before.disk[inv.path] = <<"a">>

-----------------------------------------------------------------------------
(* Claims on the failure result.                                            *)

\* The errors of the parts that failed, in the order of the parts.
FailedErrors(failParts) ==
    LET failed == SelectSeq(failParts, LAMBDA part : ~part.success)
    IN  [i \in 1..Len(failed) |-> failed[i].error]

\* C27: the result pushed after a strategy failure holds the error of every
\* part that failed, in order, when the failure carries parts, and the one
\* top-level error when it carries none.
C27_FailureError ==
    (pc = "done" /\ loc.applied = "failure") =>
        \E i \in AtEv("push") :
            /\ AtEv("push") = {i}
            /\ trace[i].msg.errors =
                  IF Len(loc.diffResult.failParts) > 0
                  THEN FailedErrors(loc.diffResult.failParts)
                  ELSE << loc.diffResult.error >>

-----------------------------------------------------------------------------
(* Claims on the end of the Edit Session.                                   *)

\* Every field that reset() assigns has its initial value.
SessionCleared ==
    [dvp EXCEPT !.relPath = Undefined, !.newContent = NoText] = InitDvp

\* C30: an invocation that has opened the Edit Session and has returned
\* has reset it: after the open, reset() was called, or revertChanges was
\* called and returned, and every field reset() assigns is cleared.
C30_OpenedSessionIsReset ==
    (pc = "done" /\ ~inv.partial /\ AtEv("open") # {}) =>
        /\ SessionCleared
        /\ \E i \in AtEv("open") :
              \/ \E j \in AtEv("reset") : i < j
              \/ /\ At("throw", "revert") = {}
                 /\ \E j \in AtEv("revertChanges") : i < j

\* C30 witness: the approval was refused and revertChanges, not the
\* orchestrator, has reset the session that was open on the path.
C30_Witness ==
    /\ pc = "done" /\ ~inv.partial
    /\ At("askApproval", "rejected") # {}
    /\ AtEv("revertChanges") # {} /\ AtEv("reset") = {}
    /\ dvp.relPath = inv.path
    /\ SessionCleared

-----------------------------------------------------------------------------
(* SpecRules: the SchedulableRulesManager. The rule files of the working    *)
(* directory are loaded, asked about, marked as executed and reset, while   *)
(* the clock advances.                                                      *)

\* TIME_UNITS: the milliseconds of one unit.
TIME_UNITS == [s |-> 1000, m |-> 60000, h |-> 3600000, d |-> 86400000]

\* parseInt(digits, 10)
RECURSIVE parseInt(_)
parseInt(digits) ==
    IF digits = <<>> THEN 0
    ELSE LET d == digits[Len(digits)]
             v == CASE d = "0" -> 0 [] d = "1" -> 1 [] d = "5" -> 5
         IN  10 * parseInt(SubSeq(digits, 1, Len(digits) - 1)) + v

\* parseTimeInterval(timeStr).interval, timeStr matching ^(\d+)([smhd])$
parseTimeInterval(timeStr) ==
    parseInt(SubSeq(timeStr, 1, Len(timeStr) - 1)) * TIME_UNITS[timeStr[Len(timeStr)]]

\* The rule files of the working directory, each by the time component of
\* its name: .clinerules-0s, .clinerules-10s, .clinerules-5m.
RuleFiles == {<<"0", "s">>, <<"1", "0", "s">>, <<"5", "m">>}

\* loadSchedulableRules(cwd): one rule per rule file.
loadSchedulableRules == {[fileName |-> f, interval |-> parseTimeInterval(f)] : f \in RuleFiles}

\* How far the clock advances between two calls, and how often it does.
ClockSteps == {10000, 300000}
MaxTicks == 3

\* Date.now() when the manager is constructed: milliseconds since 1970, more
\* than the interval of every rule file.
StartNow == 1000000

MutShouldExecute(now, lastExecution, interval) == now - lastExecution > interval
\* shouldExecuteRule: timeElapsed >= rule.interval
ShouldExecute(now, lastExecution, interval) == now - lastExecution >= interval

\* this.lastExecutionTimes.get(fileName) || 0
LastExecution(times, fileName) ==
    IF fileName \in DOMAIN times THEN times[fileName] ELSE 0

MutCleared(times) == [f \in DOMAIN times |-> 0]
\* this.lastExecutionTimes.clear()
Cleared(times) == << >>

InitRules ==
    /\ dirs = {"d1", "d2"}
    /\ disk = [p \in Paths |-> <<"a">>]
    /\ occupied = {}
    /\ skipDiffView = FALSE
    /\ dvp = InitDvp
    /\ hist = InitHist
    /\ ToolAtRest
    /\ GuardAtRest
    /\ norm = [now |-> StartNow, ticks |-> 0,
               lastExecutionTimes |-> << >>, stored |-> << >>,
               call |-> [op |-> "none"]]

\* Time passes between two calls.
Tick(ms) ==
    /\ norm.ticks < MaxTicks
    /\ norm' = [norm EXCEPT !.now = @ + ms, !.ticks = @ + 1,
                            !.call = [op |-> "none"]]
    /\ UNCHANGED <<fsVars, hist, toolVars, guard>>

\* The call just made asked whether a rule is executable.
Asked == norm.call.op = "shouldExecuteRule"

\* shouldExecuteRule(rule)
ShouldExecuteRule(rule) ==
    /\ norm' = [norm EXCEPT !.call =
           [op |-> "shouldExecuteRule", rule |-> rule,
            before |-> IF Asked THEN [op |-> "shouldExecuteRule"]
                       ELSE norm.call,
            result |-> ShouldExecute(norm.now,
                           LastExecution(norm.lastExecutionTimes, rule.fileName),
                           rule.interval)]]
    /\ UNCHANGED <<fsVars, hist, toolVars, guard>>

\* markRuleAsExecuted(rule): the time is recorded and the map is saved.
MarkRuleAsExecuted(rule) ==
    LET times == Put(norm.lastExecutionTimes, rule.fileName, norm.now)
    IN  /\ norm' = [norm EXCEPT !.lastExecutionTimes = times,
                                !.stored = times,
                                !.call = [op |-> "markRuleAsExecuted",
                                          rule |-> rule]]
        /\ UNCHANGED <<fsVars, hist, toolVars, guard>>

\* resetAllRules(): the map is cleared and saved.
ResetAllRules ==
    LET times == Cleared(norm.lastExecutionTimes)
    IN  /\ norm' = [norm EXCEPT !.lastExecutionTimes = times,
                                !.stored = times,
                                !.call = [op |-> "resetAllRules",
                                          times |-> norm.lastExecutionTimes]]
        /\ UNCHANGED <<fsVars, hist, toolVars, guard>>

NextRules ==
    \/ \E ms \in ClockSteps : Tick(ms)
    \/ \E rule \in loadSchedulableRules : ShouldExecuteRule(rule)
    \/ \E rule \in loadSchedulableRules : MarkRuleAsExecuted(rule)
    \/ ResetAllRules

SpecRules == InitRules /\ [][NextRules]_vars

C33_ResetForgets ==
    /\ norm.call.op = "resetAllRules" =>
          /\ norm.lastExecutionTimes = << >>
          /\ \A rule \in loadSchedulableRules :
                norm.now - LastExecution(norm.lastExecutionTimes, rule.fileName)
                    >= rule.interval
    /\ (Asked /\ norm.call.before.op = "resetAllRules") => norm.call.result

\* C33 witness: every rule was marked, the five-minute rule at this very
\* moment, then all were reset and the five-minute rule is executable.
C33_Witness ==
    /\ Asked /\ norm.call.before.op = "resetAllRules"
    /\ DOMAIN norm.call.before.times = RuleFiles
    /\ norm.call.rule.fileName = <<"5", "m">>
    /\ norm.call.before.times[<<"5", "m">>] = norm.now
    /\ norm.call.result

-----------------------------------------------------------------------------
(* Claims on the file changing under a running invocation.                  *)

\* C35: the text the orchestrator read and handed to the strategy is the
\* text the Edit Session holds as originalContent once open has returned,
\* and the text an approved save replaces on disk.
C35_StrategyTextIsSnapshot ==
    (pc \in {"update", "ask", "save"}) =>
        dvp.originalContent = loc.originalContent

-----------------------------------------------------------------------------
(* Claims on what an invocation reports.                                    *)

\* The steps with a catch block of their own.
CaughtSteps == {"checking if file exists", "reading file", "applying diff"}

\* C36: a timeout tool error of a step is pushed only when the step's
\* operation had not settled when the deadline passed.
C36_TimeoutOnlyAfterDeadline ==
    \A i \in AtEv("push"), step \in CaughtSteps :
        TimeoutToolErrorOf(step, trace[i].msg) =>
            \E j \in At("call", step) : trace[j].msg.text = "pending"

\* The results the orchestrator pushes itself: every pushed result but the
\* report of the generic handler.
OwnPushes ==
    { i \in AtEv("push") :
        ~(trace[i].msg.text = "tool error" /\ trace[i].msg.of.text = "Error") }

\* C37: a non-partial invocation pushes at most one tool result, and the
\* orchestrator pushes none after the approval was rejected and none after
\* it has called the generic handler.
C37_AtMostOneResult ==
    ~inv.partial =>
        /\ Cardinality(AtEv("push")) <= 1
        /\ \A i \in At("askApproval", "rejected") \cup AtEv("handleError") :
               \A j \in OwnPushes : j < i

\* C37 witness: the approval was rejected, revertChanges has returned, and
\* the invocation has ended without a result of its own.
C37_Witness ==
    /\ pc = "done" /\ ~inv.partial
    /\ At("askApproval", "rejected") # {}
    /\ AtEv("revertChanges") # {}
    /\ AtEv("push") = {}

\* C38: an invocation changes the mistake count of no path but the one
\* it was asked about, and one that ends before the strategy has answered
\* (missing parameter, access denied, file not found, or a timeout of the
\* existence check, the read or the strategy step) changes no count at all.
C38_CountsOfOtherPaths ==
    (pc # "idle") =>
        /\ \A q \in Paths \ {inv.path} :
               /\ q \in DOMAIN mistakes <=> q \in DOMAIN loc.before.mistakes
               /\ Get(mistakes, q) = Get(loc.before.mistakes, q)
        /\ (pc = "done" /\ ~inv.partial /\ loc.applied = "none")
               => mistakes = loc.before.mistakes

\* C38 witness: both paths have a count of one, and a request on p has
\* ended with the timeout of the strategy step.
C38_Witness ==
    /\ pc = "done" /\ inv.path = "p"
    /\ \E j \in At("call", "applying diff") : trace[j].msg.text = "pending"
    /\ Get(mistakes, "p") = 1 /\ Get(mistakes, "q") = 1
    /\ mistakes = loc.before.mistakes

\* The request has both parameters and is not partial.
CompleteRequest == ~inv.partial /\ inv.path # Undefined /\ inv.diff

\* C39: an invocation starts its existence check only when the task has an
\* access controller and validateAccess(path) returned true; without a
\* controller every complete non-partial request ends with the policy error
\* as its only result, no guarded step, no session call and no file changed.
C39_AccessNeedsController ==
    /\ (pc = "exists" \/ At("call", "checking if file exists") # {})
          => (inv.hasController /\ loc.accessAllowed = "allowed")
    /\ (pc # "idle" /\ CompleteRequest /\ ~inv.hasController) =>
          /\ pc = "done"
          /\ \E i \in AtEv("push") :
                /\ AtEv("push") = {i}
                /\ trace[i].msg = ToolError(RooIgnoreError(inv.path))
          /\ AtEv("call") = {}
          /\ NoSessionCall
          /\ FilesAndSessionUntouched

\* C39 witness: the task has no access controller, and a complete request
\* on the existing file p has ended with the policy error.
C39_Witness ==
    /\ pc = "done" /\ CompleteRequest /\ ~inv.hasController
    /\ inv.path = "p" /\ disk["p"] # Absent
    /\ AtEv("push") # {}

-----------------------------------------------------------------------------
(* SpecLogger: the TaskLogger, as far as AI responses go.  Responses are    *)
(* handed to logAIResponse while the clock advances; the clock never stops  *)
(* for good, and nothing obliges a further response to arrive.              *)

\* The response texts, and how many are handed to the logger in a run.
Responses == {"r1", "r2"}
MaxResponses == 3

\* if (now - this.lastResponseTimestamp < 10000): a streaming update.
StreamingWindowMs == 10000

InitLogger ==
    /\ dirs = {"d1", "d2"}
    /\ disk = [p \in Paths |-> <<"a">>]
    /\ occupied = {}
    /\ skipDiffView = FALSE
    /\ dvp = InitDvp
    /\ hist = InitHist
    /\ ToolAtRest
    /\ GuardAtRest
    /\ norm = [now |-> StartNow, ticks |-> 0, call |-> [op |-> "none"],
               ready |-> FALSE,
               lastResponseTimestamp |-> 0,
               responseBuffer |-> <<>>,
               logFile |-> <<>>,    \* the lines of the log file, in order
               handed |-> <<>>]     \* history: the texts handed over, in order

\* logAIResponse(response); appendOk: fs.appendFile of writeLogEntry
\* succeeds (its failure is logged to the console and swallowed).
LogAIResponse(response, appendOk) ==
    /\ Len(norm.handed) < MaxResponses
    /\ UNCHANGED <<fsVars, hist, toolVars, guard>>
    /\ IF norm.now - norm.lastResponseTimestamp < StreamingWindowMs
       THEN norm' = [norm EXCEPT
                       !.ready = TRUE,
                       !.call = [op |-> "logAIResponse"],
                       !.handed = Append(@, response),
                       !.responseBuffer = @ \o <<response>>]
       ELSE LET entry == [type |-> "ai_response", timestamp |-> norm.now,
                          content |-> norm.responseBuffer \o <<response>>]
            IN  norm' = [norm EXCEPT
                           !.ready = TRUE,
                           !.call = [op |-> "logAIResponse"],
                           !.handed = Append(@, response),
                           !.responseBuffer = <<>>,
                           !.logFile = IF appendOk THEN Append(@, entry) ELSE @,
                           !.lastResponseTimestamp = norm.now]

NextLogger ==
    \/ \E ms \in ClockSteps : Tick(ms)
    \/ \E response \in Responses, appendOk \in BOOLEAN :
           LogAIResponse(response, appendOk)

SpecLogger ==
    InitLogger /\ [][NextLogger]_vars /\ WF_vars(\E ms \in ClockSteps : Tick(ms))

\* C40: no text stays in the response buffer forever: whenever the buffer
\* holds a text, a later state has it empty (its texts written to the log).
C40_BufferIsFlushed ==
    (norm.responseBuffer # <<>>) ~> (norm.responseBuffer = <<>>)

=============================================================================
